---------------------------- MODULE Spec2Model ----------------------------
(***************************************************************************)
(* Model of the BigQuery exporter of opentelemetry-collector-contrib:      *)
(* the row projection (tracesToRows, metricsToRows, logsToRows), the JSON  *)
(* rendering helpers and the schema-driven row encoder (encodeRow, the     *)
(* coercion functions).                                                     *)
(*                                                                          *)
(* Representation.  A Go string is a sequence of text fragments, so that   *)
(* "" is <<>> and JSON text is the sequence of its tokens.  A Go value of  *)
(* dynamic type (bigquery.Value, any) is a record [t, s, n]: t the dynamic *)
(* type, s the text of a string (or the tag of a non-finite float),        *)
(* n the number.  A Go map of type row lives in a heap (a sequence of      *)
(* functions from column names to values) and is referred to by address,   *)
(* as maps are reference values in Go.                                      *)
(***************************************************************************)
EXTENDS Integers, Sequences, FiniteSets, TLC

VARIABLES
    mode,       \* which batches are explored: "shape" (many groupings, few kinds of
                \* leaf) or "content" (one grouping, every kind of leaf); "encode"
    batch,      \* the pdata batch handed to the exporter: [signal, resources]
    pc,         \* "build" while the pipeline assembles the batch, "done" after the projection
    heap,       \* the row maps allocated by the projection (address = index)
    rows,       \* the []row returned by the projection: a sequence of addresses
    bases,      \* the baseRow local of every metricToRows call, in call order
    encIn,      \* the (descriptor, row) pair handed to encodeRow
    encOut,     \* the result of encodeRow: [state, msg, b, col]
    exporters,  \* the bigQueryExporter each factory function created, by signal
    bq,         \* the BigQuery project: whether the dataset exists, the tables it has
    faults,     \* the number of calls to BigQuery that have failed so far
    calls,      \* the push calls in flight: [pc, signal, batch, rows, serialized, err, col,
                \* at], col the column the error names, at the state of the exporter at the call
    stream,     \* the AppendRows calls made on the managed streams, in order
    cfg,        \* the *Config of the exporter: [project, id, trace, metric, log]
    cfgErr      \* the result of cfg.Validate(): "none" before the call, then "nil" or the error

cfgVars == <<cfg, cfgErr>>

lifeVars == <<exporters, bq, faults, calls, stream, cfg, cfgErr>>

vars ==
    <<mode, batch, pc, heap, rows, bases, encIn, encOut, exporters, bq, faults, calls, stream,
      cfg, cfgErr>>

-----------------------------------------------------------------------------
(* Bounds of the model *)

MaxResources == 2
MaxScopes == 2
MaxMetrics == 2
MaxLeaves == 2
MaxRowCols == 2
MaxFaults == 1
MaxCalls == 2
MaxTextLen == 2
MaxConfigKeys == 2

-----------------------------------------------------------------------------
(* Go values of dynamic type *)

V(t, s, n) == [t |-> t, s |-> s, n |-> n]

Nil == V("nil", <<>>, 0)
Str(s) == V("string", s, 0)
Bool(b) == V("bool", <<>>, IF b THEN 1 ELSE 0)
I64(n) == V("int64", <<>>, n)
U64(n) == V("uint64", <<>>, n)
U32(n) == V("uint32", <<>>, n)
I32(n) == V("int32", <<>>, n)
F64(n) == V("float64", <<>>, n)
NaN == V("float64", <<"NaN">>, 0)
PosInf == V("float64", <<"+Inf">>, 0)
\* time.Time: n is the nanoseconds since the Unix epoch of pcommon.Timestamp.AsTime();
\* the zero time.Time{} of metricBaseRow is year 1 and is tagged instead.
Time(n) == V("time", <<>>, n)
ZeroTime == V("time", <<"0001-01-01T00:00:00Z">>, 0)

IsFinite(v) == v.s = <<>>

-----------------------------------------------------------------------------
(* encoding/json as the exporter uses it.  A value handed to json.Marshal  *)
(* is a tree: JVal (a scalar), JRaw (json.RawMessage), JObj (a Go map,     *)
(* marshalled with its keys sorted), JArr (a non-nil slice), JNilSlice.    *)

JVal(v) == [k |-> "val", v |-> v]
JRaw(text) == [k |-> "raw", text |-> text]
JObj(m) == [k |-> "obj", m |-> m]
JArr(e) == [k |-> "arr", e |-> e]
JNilSlice == [k |-> "nilslice"]

\* Every object key the exporter emits, in the byte order json.Marshal sorts map keys by.
KeyOrder ==
    <<"a", "attributes", "b", "bucket_counts", "dropped_attributes_count",
      "filtered_attributes", "flags", "name", "negative", "offset", "positive",
      "quantile", "scale", "span_id", "timestamp", "trace_id", "trace_state",
      "value", "value_double", "value_int", "version", "zero_count">>

SortedKeys(m) == SelectSeq(KeyOrder, LAMBDA key : key \in DOMAIN m)

NumRange == -1 .. 20
NumTokens == {ToString(n) : n \in NumRange}

RECURSIVE ParseString(_, _)
ParseString(t, i) ==
    IF i > Len(t) THEN 0
    ELSE IF t[i] = "\"" THEN i + 1
    ELSE ParseString(t, i + 1)

RECURSIVE ParseValue(_, _)
RECURSIVE ParseMembers(_, _)
RECURSIVE ParseElements(_, _)

\* Index after the JSON value that starts at t[i], 0 if there is none.
ParseValue(t, i) ==
    IF i > Len(t) THEN 0
    ELSE IF t[i] = "{" THEN
        IF i + 1 <= Len(t) /\ t[i + 1] = "}" THEN i + 2 ELSE ParseMembers(t, i + 1)
    ELSE IF t[i] = "[" THEN
        IF i + 1 <= Len(t) /\ t[i + 1] = "]" THEN i + 2 ELSE ParseElements(t, i + 1)
    ELSE IF t[i] = "\"" THEN ParseString(t, i + 1)
    ELSE IF t[i] \in {"true", "false", "null"} \cup NumTokens THEN i + 1
    ELSE 0

\* member ("," member)* "}" starting at t[i]
ParseMembers(t, i) ==
    IF i > Len(t) \/ t[i] # "\"" THEN 0
    ELSE LET j == ParseString(t, i + 1) IN
         IF j = 0 \/ j > Len(t) \/ t[j] # ":" THEN 0
         ELSE LET l == ParseValue(t, j + 1) IN
              IF l = 0 \/ l > Len(t) THEN 0
              ELSE IF t[l] = "}" THEN l + 1
              ELSE IF t[l] = "," THEN ParseMembers(t, l + 1)
              ELSE 0

\* value ("," value)* "]" starting at t[i]
ParseElements(t, i) ==
    LET l == ParseValue(t, i) IN
    IF l = 0 \/ l > Len(t) THEN 0
    ELSE IF t[l] = "]" THEN l + 1
    ELSE IF t[l] = "," THEN ParseElements(t, l + 1)
    ELSE 0

\* json.Valid
ValidJSON(t) == Len(t) > 0 /\ ParseValue(t, 1) = Len(t) + 1

RECURSIVE JoinSeqs(_, _)
JoinSeqs(parts, sep) ==
    IF Len(parts) = 0 THEN <<>>
    ELSE IF Len(parts) = 1 THEN parts[1]
    ELSE parts[1] \o sep \o JoinSeqs(Tail(parts), sep)

\* json.Marshal fails with UnsupportedValueError on a NaN or infinite float
\* and with a MarshalerError on a RawMessage that is not valid JSON.
RECURSIVE Marshalable(_)
Marshalable(j) ==
    CASE j.k = "val" -> ~(j.v.t = "float64" /\ ~IsFinite(j.v))
      [] j.k = "raw" -> ValidJSON(j.text)
      [] j.k = "obj" -> \A key \in DOMAIN j.m : Marshalable(j.m[key])
      [] j.k = "arr" -> \A i \in DOMAIN j.e : Marshalable(j.e[i])
      [] j.k = "nilslice" -> TRUE

EncodeScalar(v) ==
    CASE v.t = "string" -> <<"\"">> \o v.s \o <<"\"">>
      [] v.t = "bool" -> IF v.n = 1 THEN <<"true">> ELSE <<"false">>
      [] v.t = "nil" -> <<"null">>
      [] OTHER -> <<ToString(v.n)>>

RECURSIVE Encode(_)
Encode(j) ==
    CASE j.k = "val" -> EncodeScalar(j.v)
      [] j.k = "raw" -> j.text
      [] j.k = "obj" ->
            LET keys == SortedKeys(j.m)
                member(i) == <<"\"", keys[i], "\"", ":">> \o Encode(j.m[keys[i]])
            IN <<"{">> \o JoinSeqs([i \in 1 .. Len(keys) |-> member(i)], <<",">>) \o <<"}">>
      [] j.k = "arr" ->
            <<"[">> \o JoinSeqs([i \in 1 .. Len(j.e) |-> Encode(j.e[i])], <<",">>) \o <<"]">>
      [] j.k = "nilslice" -> <<"null">>

\* b, _ := json.Marshal(v); return string(b): the error is dropped and b is nil then.
marshalJSON(v) == IF Marshalable(v) THEN Encode(v) ELSE <<>>

-----------------------------------------------------------------------------
(* Identifiers and the shared rendering helpers *)

TraceIDLen == 16
SpanIDLen == 8

HexDigits == <<"0", "1", "2", "3", "4", "5", "6", "7", "8", "9", "a", "b", "c", "d", "e", "f">>

\* hex.EncodeToString: two lowercase digits per byte
RECURSIVE HexEncode(_)
HexEncode(id) ==
    IF Len(id) = 0 THEN <<>>
    ELSE <<HexDigits[(Head(id) \div 16) + 1], HexDigits[(Head(id) % 16) + 1]>> \o HexEncode(Tail(id))

\* pcommon.TraceID.IsEmpty / pcommon.SpanID.IsEmpty
IsEmptyID(id) == \A i \in DOMAIN id : id[i] = 0

traceIDToHex(id) == HexEncode(id)

\* Variant: a span id that is all zero rendered as sixteen zeros
spanIDToHexNoEmpty(id) == HexEncode(id)

spanIDToHex(id) == IF IsEmptyID(id) THEN <<>> ELSE HexEncode(id)

\* pcommon.Map.AsRaw: a Go map from key to the raw value of each attribute
AsRawMap(attrs) == JObj([key \in DOMAIN attrs |-> JVal(attrs[key])])

attributesToJSON(attrs) ==
    IF DOMAIN attrs = {} THEN <<"{", "}">>
    ELSE marshalJSON(AsRawMap(attrs))

scopeToJSON(scope) ==
    LET m == [key \in {"name", "version"} |->
                 IF key = "name" THEN JVal(Str(scope.name)) ELSE JVal(Str(scope.version))]
        withAttrs == [key \in {"name", "version", "attributes"} |->
                         IF key = "attributes" THEN AsRawMap(scope.attrs) ELSE m[key]]
    IN IF DOMAIN scope.attrs # {} THEN marshalJSON(JObj(withAttrs)) ELSE marshalJSON(JObj(m))

\* pcommon.Timestamp.AsTime(): the time.Time of ts nanoseconds after the epoch
AsTime(ts) == Time(ts)

\* time.Time.Format(time.RFC3339Nano) of a time less than ten nanoseconds after the epoch
FormatRFC3339Nano(ts) ==
    IF ts = 0 THEN <<"1970-01-01T00:00:00Z">>
    ELSE <<"1970-01-01T00:00:00.00000000", ToString(ts), "Z">>

\* Left fold over a sequence: the shape of every `for _, x := range s.All()` loop
RECURSIVE FoldSeq(_, _, _)
FoldSeq(f(_, _), acc, s) ==
    IF s = <<>> THEN acc ELSE FoldSeq(f, f(acc, Head(s)), Tail(s))

\* The result under construction of a projection: the heap of row maps, the
\* []row slice (addresses), and the base rows metricToRows has built.
NoRows == [h |-> <<>>, rows |-> <<>>, bases |-> <<>>]

\* append that drops the rows appended before: rows = append(rows[:0], r)
AppendRowTruncating(acc, r) ==
    [acc EXCEPT !.h = Append(@, r), !.rows = <<Len(acc.h) + 1>>]

\* a row put in front of the rows appended before
AppendRowInFront(acc, r) ==
    [acc EXCEPT !.h = Append(@, r), !.rows = <<Len(acc.h) + 1>> \o @]

\* rows = append(rows, r) for a freshly built row map r
AppendRow(acc, r) ==
    [acc EXCEPT !.h = Append(@, r), !.rows = Append(@, Len(acc.h) + 1)]

-----------------------------------------------------------------------------
(* Traces *)

\* bigquery field types
tracesSchema ==
    << <<"trace_id", "STRING">>, <<"span_id", "STRING">>, <<"parent_span_id", "STRING">>,
       <<"trace_state", "STRING">>, <<"name", "STRING">>, <<"kind", "STRING">>,
       <<"start_time", "TIMESTAMP">>, <<"end_time", "TIMESTAMP">>,
       <<"status_code", "STRING">>, <<"status_message", "STRING">>,
       <<"flags", "INTEGER">>, <<"dropped_attributes_count", "INTEGER">>,
       <<"dropped_events_count", "INTEGER">>, <<"dropped_links_count", "INTEGER">>,
       <<"resource_attributes", "JSON">>, <<"resource_schema_url", "STRING">>,
       <<"span_attributes", "JSON">>, <<"events", "JSON">>, <<"links", "JSON">>,
       <<"instrumentation_scope", "JSON">>, <<"scope_schema_url", "STRING">> >>

\* Variant: the names ptrace.SpanKind.String() gives
spanKindToStringGoNames(kind) ==
    CASE kind = 1 -> <<"Internal">>
      [] kind = 2 -> <<"Server">>
      [] kind = 3 -> <<"Client">>
      [] kind = 4 -> <<"Producer">>
      [] kind = 5 -> <<"Consumer">>
      [] kind = 0 -> <<"Unspecified">>
      [] OTHER -> <<>>

spanKindToString(kind) ==
    CASE kind = 1 -> <<"INTERNAL">>
      [] kind = 2 -> <<"SERVER">>
      [] kind = 3 -> <<"CLIENT">>
      [] kind = 4 -> <<"PRODUCER">>
      [] kind = 5 -> <<"CONSUMER">>
      [] OTHER -> <<"UNSPECIFIED">>

statusCodeToString(code) ==
    CASE code = 1 -> <<"OK">>
      [] code = 2 -> <<"ERROR">>
      [] OTHER -> <<"UNSET">>

eventsToJSON(events) ==
    IF Len(events) = 0 THEN <<"[", "]">>
    ELSE marshalJSON(JArr([i \in 1 .. Len(events) |->
            JObj([key \in {"timestamp", "name", "attributes", "dropped_attributes_count"} |->
                CASE key = "timestamp" -> JVal(Str(FormatRFC3339Nano(events[i].ts)))
                  [] key = "name" -> JVal(Str(events[i].name))
                  [] key = "attributes" -> JRaw(attributesToJSON(events[i].attrs))
                  [] key = "dropped_attributes_count" -> JVal(U32(events[i].dropped))])]))

linksToJSON(links) ==
    IF Len(links) = 0 THEN <<"[", "]">>
    ELSE marshalJSON(JArr([i \in 1 .. Len(links) |->
            JObj([key \in {"trace_id", "span_id", "trace_state", "attributes",
                           "dropped_attributes_count", "flags"} |->
                CASE key = "trace_id" -> JVal(Str(traceIDToHex(links[i].traceID)))
                  [] key = "span_id" -> JVal(Str(spanIDToHex(links[i].spanID)))
                  [] key = "trace_state" -> JVal(Str(links[i].traceState))
                  [] key = "attributes" -> JRaw(attributesToJSON(links[i].attrs))
                  [] key = "dropped_attributes_count" -> JVal(U32(links[i].dropped))
                  [] key = "flags" -> JVal(I64(links[i].flags))])]))

\* The row literal of tracesToRows for one span of scope grouping ss of resource grouping rs
spanRow(rs, ss, span) ==
    [col \in {"trace_id", "span_id", "parent_span_id", "trace_state", "name", "kind",
              "start_time", "end_time", "status_code", "status_message", "flags",
              "dropped_attributes_count", "dropped_events_count", "dropped_links_count",
              "resource_attributes", "resource_schema_url", "span_attributes", "events",
              "links", "instrumentation_scope", "scope_schema_url"} |->
        CASE col = "trace_id" -> Str(traceIDToHex(span.traceID))
          [] col = "span_id" -> Str(spanIDToHex(span.spanID))
          [] col = "parent_span_id" -> Str(spanIDToHex(span.parentSpanID))
          [] col = "trace_state" -> Str(span.traceState)
          [] col = "name" -> Str(span.name)
          [] col = "kind" -> Str(spanKindToString(span.kind))
          [] col = "start_time" -> AsTime(span.start)
          [] col = "end_time" -> AsTime(span.end)
          [] col = "status_code" -> Str(statusCodeToString(span.statusCode))
          [] col = "status_message" -> Str(span.statusMessage)
          [] col = "flags" -> I64(span.flags)
          [] col = "dropped_attributes_count" -> I64(span.droppedAttributes)
          [] col = "dropped_events_count" -> I64(span.droppedEvents)
          [] col = "dropped_links_count" -> I64(span.droppedLinks)
          [] col = "resource_attributes" -> Str(attributesToJSON(rs.attrs))
          [] col = "resource_schema_url" -> Str(rs.schemaUrl)
          [] col = "span_attributes" -> Str(attributesToJSON(span.attrs))
          [] col = "events" -> Str(eventsToJSON(span.events))
          [] col = "links" -> Str(linksToJSON(span.links))
          [] col = "instrumentation_scope" -> Str(scopeToJSON(ss.scope))
          [] col = "scope_schema_url" -> Str(ss.schemaUrl)]

tracesToRows(td) ==
    FoldSeq(LAMBDA acc1, rs :
        FoldSeq(LAMBDA acc2, ss :
            FoldSeq(LAMBDA acc3, span : AppendRow(acc3, spanRow(rs, ss, span)),
                    acc2, ss.items),
            acc1, rs.scopes),
        NoRows, td.resources)

-----------------------------------------------------------------------------
(* Logs *)

logsSchema ==
    << <<"observed_timestamp", "TIMESTAMP">>, <<"log_timestamp", "TIMESTAMP">>,
       <<"trace_id", "STRING">>, <<"span_id", "STRING">>,
       <<"severity_number", "INTEGER">>, <<"severity_text", "STRING">>,
       <<"body", "STRING">>, <<"flags", "INTEGER">>,
       <<"dropped_attributes_count", "INTEGER">>, <<"resource_attributes", "JSON">>,
       <<"resource_schema_url", "STRING">>, <<"log_attributes", "JSON">>,
       <<"instrumentation_scope", "JSON">>, <<"scope_schema_url", "STRING">> >>

\* pcommon.Value.AsString of a body that is neither a map, a slice nor empty
AsString(v) ==
    CASE v.t = "string" -> v.s
      [] v.t = "bool" -> IF v.n = 1 THEN <<"true">> ELSE <<"false">>
      [] v.t = "float64" /\ ~IsFinite(v) -> v.s
      [] OTHER -> <<ToString(v.n)>>

\* A body is [type, v, m, e]: the pcommon.ValueType, and the scalar, the map or the slice it holds
bodyToString(body) ==
    CASE body.type = "map" -> marshalJSON(AsRawMap(body.m))
      [] body.type = "slice" -> marshalJSON(JArr([i \in 1 .. Len(body.e) |-> JVal(body.e[i])]))
      [] body.type = "empty" -> <<>>
      [] OTHER -> AsString(body.v)

logRow(rl, sl, lr) ==
    [col \in {"observed_timestamp", "log_timestamp", "trace_id", "span_id", "severity_number",
              "severity_text", "body", "flags", "dropped_attributes_count",
              "resource_attributes", "resource_schema_url", "log_attributes",
              "instrumentation_scope", "scope_schema_url"} |->
        CASE col = "observed_timestamp" -> AsTime(lr.observedTs)
          [] col = "log_timestamp" -> AsTime(lr.ts)
          [] col = "trace_id" -> Str(traceIDToHex(lr.traceID))
          [] col = "span_id" -> Str(spanIDToHex(lr.spanID))
          [] col = "severity_number" -> I64(lr.severityNumber)
          [] col = "severity_text" -> Str(lr.severityText)
          [] col = "body" -> Str(bodyToString(lr.body))
          [] col = "flags" -> I64(lr.flags)
          [] col = "dropped_attributes_count" -> I64(lr.droppedAttributes)
          [] col = "resource_attributes" -> Str(attributesToJSON(rl.attrs))
          [] col = "resource_schema_url" -> Str(rl.schemaUrl)
          [] col = "log_attributes" -> Str(attributesToJSON(lr.attrs))
          [] col = "instrumentation_scope" -> Str(scopeToJSON(sl.scope))
          [] col = "scope_schema_url" -> Str(sl.schemaUrl)]

logsToRows(ld) ==
    FoldSeq(LAMBDA acc1, rl :
        FoldSeq(LAMBDA acc2, sl :
            FoldSeq(LAMBDA acc3, lr : AppendRow(acc3, logRow(rl, sl, lr)),
                    acc2, sl.items),
            acc1, rl.scopes),
        NoRows, ld.resources)

-----------------------------------------------------------------------------
(* Metrics *)

metricsSchema ==
    << <<"metric_name", "STRING">>, <<"metric_description", "STRING">>,
       <<"metric_unit", "STRING">>, <<"metric_type", "STRING">>,
       <<"aggregation_temporality", "STRING">>, <<"is_monotonic", "BOOLEAN">>,
       <<"datapoint_timestamp", "TIMESTAMP">>, <<"start_timestamp", "TIMESTAMP">>,
       <<"value_int", "INTEGER">>, <<"value_double", "FLOAT">>, <<"exemplars", "JSON">>,
       <<"flags", "INTEGER">>, <<"quantiles", "JSON">>, <<"count", "INTEGER">>,
       <<"sum", "FLOAT">>, <<"min", "FLOAT">>, <<"max", "FLOAT">>,
       <<"bucket_counts", "JSON">>, <<"explicit_bounds", "JSON">>,
       <<"zero_threshold", "FLOAT">>, <<"resource_attributes", "JSON">>,
       <<"resource_schema_url", "STRING">>, <<"datapoint_attributes", "JSON">>,
       <<"instrumentation_scope", "JSON">>, <<"scope_schema_url", "STRING">> >>

\* m[k] = v for every k of updates, on the map at address r: a key the map lacks is added
SetFields(h, r, updates) ==
    [h EXCEPT ![r] = [col \in DOMAIN @ \cup DOMAIN updates |->
                         IF col \in DOMAIN updates THEN updates[col] ELSE @[col]]]

\* aggregationTemporalityToString without the default case
aggregationTemporalityToStringNoDefault(at) ==
    CASE at = 2 -> <<"CUMULATIVE">>
      [] at = 1 -> <<"DELTA">>
      [] OTHER -> <<>>

\* pmetric.AggregationTemporality: 0 unspecified, 1 delta, 2 cumulative
aggregationTemporalityToString(at) ==
    CASE at = 2 -> <<"CUMULATIVE">>
      [] at = 1 -> <<"DELTA">>
      [] OTHER -> <<"UNSPECIFIED">>

exemplarsToJSON(exemplars) ==
    IF Len(exemplars) = 0 THEN <<"[", "]">>
    ELSE marshalJSON(JArr([i \in 1 .. Len(exemplars) |->
            LET ex == exemplars[i]
                keys == {"timestamp", "trace_id", "span_id", "filtered_attributes"}
                          \cup (IF ex.valueType = "int" THEN {"value_int"} ELSE {})
                          \cup (IF ex.valueType = "double" THEN {"value_double"} ELSE {})
            IN JObj([key \in keys |->
                CASE key = "timestamp" -> JVal(Str(FormatRFC3339Nano(ex.ts)))
                  [] key = "trace_id" -> JVal(Str(traceIDToHex(ex.traceID)))
                  [] key = "span_id" -> JVal(Str(spanIDToHex(ex.spanID)))
                  [] key = "filtered_attributes" -> JRaw(attributesToJSON(ex.filteredAttrs))
                  [] key = "value_int" -> JVal(I64(ex.intValue))
                  [] key = "value_double" -> JVal(ex.doubleValue)])]))

bucketCountsToJSON(values) ==
    IF Len(values) = 0 THEN <<"[", "]">>
    ELSE marshalJSON(JArr([i \in 1 .. Len(values) |-> JVal(U64(values[i]))]))

explicitBoundsToJSON(values) ==
    IF Len(values) = 0 THEN <<"[", "]">>
    ELSE marshalJSON(JArr([i \in 1 .. Len(values) |-> JVal(values[i])]))

quantilesToJSON(qvs) ==
    IF Len(qvs) = 0 THEN <<"[", "]">>
    ELSE marshalJSON(JArr([i \in 1 .. Len(qvs) |->
            JObj([key \in {"quantile", "value"} |->
                IF key = "quantile" THEN JVal(qvs[i].quantile) ELSE JVal(qvs[i].value)])]))

\* pcommon.UInt64Slice.AsRaw copies into a nil slice, so an empty one stays nil
AsRawSlice(values) ==
    IF Len(values) = 0 THEN JNilSlice
    ELSE JArr([i \in 1 .. Len(values) |-> JVal(U64(values[i]))])

exponentialBucketInfoToJSON(dp) ==
    LET buckets(b) == JObj([key \in {"offset", "bucket_counts"} |->
                          IF key = "offset" THEN JVal(I32(b.offset)) ELSE AsRawSlice(b.bucketCounts)])
    IN marshalJSON(JObj([key \in {"scale", "zero_count", "positive", "negative"} |->
            CASE key = "scale" -> JVal(I32(dp.scale))
              [] key = "zero_count" -> JVal(U64(dp.zeroCount))
              [] key = "positive" -> buckets(dp.positive)
              [] key = "negative" -> buckets(dp.negative)]))

metricBaseRow(metric, resourceAttrs, resourceSchemaURL, scope, scopeSchemaURL) ==
    [col \in {"metric_name", "metric_description", "metric_unit", "metric_type",
              "aggregation_temporality", "is_monotonic", "datapoint_timestamp",
              "start_timestamp", "value_int", "value_double", "exemplars", "flags",
              "quantiles", "count", "sum", "min", "max", "bucket_counts",
              "explicit_bounds", "zero_threshold", "resource_attributes",
              "resource_schema_url", "datapoint_attributes", "instrumentation_scope",
              "scope_schema_url"} |->
        CASE col = "metric_name" -> Str(metric.name)
          [] col = "metric_description" -> Str(metric.description)
          [] col = "metric_unit" -> Str(metric.unit)
          [] col = "metric_type" -> Str(<<>>)
          [] col = "aggregation_temporality" -> Str(<<>>)
          [] col = "is_monotonic" -> Bool(FALSE)
          [] col = "datapoint_timestamp" -> ZeroTime
          [] col = "start_timestamp" -> ZeroTime
          [] col \in {"value_int", "value_double", "count", "sum", "min", "max",
                      "zero_threshold"} -> Nil
          [] col \in {"exemplars", "quantiles", "bucket_counts", "explicit_bounds"} ->
                Str(<<"[", "]">>)
          [] col = "flags" -> I64(0)
          [] col = "resource_attributes" -> Str(attributesToJSON(resourceAttrs))
          [] col = "resource_schema_url" -> Str(resourceSchemaURL)
          [] col = "datapoint_attributes" -> Str(attributesToJSON(<<>>))
          [] col = "instrumentation_scope" -> Str(scopeToJSON(scope))
          [] col = "scope_schema_url" -> Str(scopeSchemaURL)]

\* A data point's row that shares the map of the base row instead of copying it
cloneMetricRowShared(h, base, metricType) ==
    [h |-> SetFields(h, base, [col \in {"metric_type"} |-> Str(<<metricType>>)]), r |-> base]

\* A copy of the base row that keeps the metric_type of the base row
cloneMetricRowUntyped(h, base, metricType) == [h |-> Append(h, h[base]), r |-> Len(h) + 1]

\* r := make(row, len(base)); maps.Copy(r, base); r["metric_type"] = metricType
cloneMetricRow(h, base, metricType) ==
    LET r == Len(h) + 1
    IN [h |-> SetFields(Append(h, h[base]), r, [col \in {"metric_type"} |-> Str(<<metricType>>)]),
        r |-> r]

\* the data point timestamp written under a key that is no column
setCommonDataPointFieldsUnknownKey(h, r, ts, start, flags, attrs) ==
    SetFields(h, r,
        [col \in {"timestamp", "start_timestamp", "flags", "datapoint_attributes"} |->
            CASE col = "timestamp" -> AsTime(ts)
              [] col = "start_timestamp" -> AsTime(start)
              [] col = "flags" -> I64(flags)
              [] col = "datapoint_attributes" -> Str(attributesToJSON(attrs))])

setCommonDataPointFields(h, r, ts, start, flags, attrs) ==
    SetFields(h, r,
        [col \in {"datapoint_timestamp", "start_timestamp", "flags", "datapoint_attributes"} |->
            CASE col = "datapoint_timestamp" -> AsTime(ts)
              [] col = "start_timestamp" -> AsTime(start)
              [] col = "flags" -> I64(flags)
              [] col = "datapoint_attributes" -> Str(attributesToJSON(attrs))])

\* both value columns written whatever the value kind
setNumberValueBoth(h, r, dp) ==
    SetFields(h, r, [col \in {"value_int", "value_double"} |->
                        IF col = "value_int" THEN I64(dp.intValue) ELSE dp.doubleValue])

setNumberValue(h, r, dp) ==
    CASE dp.valueType = "int" ->
            SetFields(h, r, [col \in {"value_int", "value_double"} |->
                                IF col = "value_int" THEN I64(dp.intValue) ELSE Nil])
      [] dp.valueType = "double" ->
            SetFields(h, r, [col \in {"value_int", "value_double"} |->
                                IF col = "value_int" THEN Nil ELSE dp.doubleValue])
      [] OTHER -> h

\* The per-type functions return [h, rows]: the heap after their writes and their []row
numberDataPointsToRows(h, dps, base, metricType) ==
    FoldSeq(LAMBDA acc, dp :
        LET c == cloneMetricRow(acc.h, base, metricType)
            h1 == setCommonDataPointFields(c.h, c.r, dp.ts, dp.start, dp.flags, dp.attrs)
            h2 == SetFields(h1, c.r, [col \in {"exemplars"} |-> Str(exemplarsToJSON(dp.exemplars))])
        IN [h |-> setNumberValue(h2, c.r, dp), rows |-> Append(acc.rows, c.r)],
        [h |-> h, rows |-> <<>>], dps)

gaugeToRows(h, gauge, base) == numberDataPointsToRows(h, gauge.dps, base, "GAUGE")

sumToRows(h, sum, base) ==
    LET h1 == SetFields(h, base, [col \in {"aggregation_temporality", "is_monotonic"} |->
                  IF col = "is_monotonic" THEN Bool(sum.monotonic)
                  ELSE Str(aggregationTemporalityToString(sum.temporality))])
    IN numberDataPointsToRows(h1, sum.dps, base, "SUM")

\* sum, min and max written without looking at HasSum, HasMin, HasMax
OptionalStatsAlways(dp) == {"sum", "min", "max"}

\* The optional statistics of a histogram data point: present only when the point has them
OptionalStats(dp) ==
    (IF dp.hasSum THEN {"sum"} ELSE {}) \cup (IF dp.hasMin THEN {"min"} ELSE {})
        \cup (IF dp.hasMax THEN {"max"} ELSE {})

histogramToRows(h, hist, base) ==
    LET h0 == SetFields(h, base, [col \in {"aggregation_temporality"} |->
                  Str(aggregationTemporalityToString(hist.temporality))])
    IN FoldSeq(LAMBDA acc, dp :
        LET c == cloneMetricRow(acc.h, base, "HISTOGRAM")
            h1 == setCommonDataPointFields(c.h, c.r, dp.ts, dp.start, dp.flags, dp.attrs)
            h2 == SetFields(h1, c.r,
                    [col \in {"exemplars", "count", "bucket_counts", "explicit_bounds"}
                               \cup OptionalStats(dp) |->
                        CASE col = "exemplars" -> Str(exemplarsToJSON(dp.exemplars))
                          [] col = "count" -> U64(dp.count)
                          [] col = "sum" -> dp.sum
                          [] col = "min" -> dp.min
                          [] col = "max" -> dp.max
                          [] col = "bucket_counts" -> Str(bucketCountsToJSON(dp.bucketCounts))
                          [] col = "explicit_bounds" -> Str(explicitBoundsToJSON(dp.explicitBounds))])
        IN [h |-> h2, rows |-> Append(acc.rows, c.r)],
        [h |-> h0, rows |-> <<>>], hist.dps)

summaryToRows(h, summary, base) ==
    FoldSeq(LAMBDA acc, dp :
        LET c == cloneMetricRow(acc.h, base, "SUMMARY")
            h1 == setCommonDataPointFields(c.h, c.r, dp.ts, dp.start, dp.flags, dp.attrs)
            h2 == SetFields(h1, c.r, [col \in {"count", "sum", "quantiles"} |->
                        CASE col = "count" -> U64(dp.count)
                          [] col = "sum" -> dp.sum
                          [] col = "quantiles" -> Str(quantilesToJSON(dp.quantiles))])
        IN [h |-> h2, rows |-> Append(acc.rows, c.r)],
        [h |-> h, rows |-> <<>>], summary.dps)

exponentialHistogramToRows(h, hist, base) ==
    LET h0 == SetFields(h, base, [col \in {"aggregation_temporality"} |->
                  Str(aggregationTemporalityToString(hist.temporality))])
    IN FoldSeq(LAMBDA acc, dp :
        LET c == cloneMetricRow(acc.h, base, "EXPONENTIAL_HISTOGRAM")
            h1 == setCommonDataPointFields(c.h, c.r, dp.ts, dp.start, dp.flags, dp.attrs)
            h2 == SetFields(h1, c.r,
                    [col \in {"exemplars", "count", "zero_threshold", "bucket_counts"}
                               \cup OptionalStats(dp) |->
                        CASE col = "exemplars" -> Str(exemplarsToJSON(dp.exemplars))
                          [] col = "count" -> U64(dp.count)
                          [] col = "sum" -> dp.sum
                          [] col = "min" -> dp.min
                          [] col = "max" -> dp.max
                          [] col = "zero_threshold" -> dp.zeroThreshold
                          [] col = "bucket_counts" -> Str(exponentialBucketInfoToJSON(dp))])
        IN [h |-> h2, rows |-> Append(acc.rows, c.r)],
        [h |-> h0, rows |-> <<>>], hist.dps)

\* a metric of no known type answered with its base row instead of nil
metricToRowsBaseForUnknown(h, metric, resourceAttrs, resourceSchemaURL, scope, scopeSchemaURL) ==
    LET baseRow == Len(h) + 1
        h1 == Append(h, metricBaseRow(metric, resourceAttrs, resourceSchemaURL, scope, scopeSchemaURL))
        res == CASE metric.type = "gauge" -> gaugeToRows(h1, metric, baseRow)
                 [] metric.type = "sum" -> sumToRows(h1, metric, baseRow)
                 [] metric.type = "histogram" -> histogramToRows(h1, metric, baseRow)
                 [] metric.type = "summary" -> summaryToRows(h1, metric, baseRow)
                 [] metric.type = "exponential_histogram" ->
                        exponentialHistogramToRows(h1, metric, baseRow)
                 [] OTHER -> [h |-> h1, rows |-> <<baseRow>>]
    IN [h |-> res.h, rows |-> res.rows, base |-> baseRow]

\* metricToRows on one template map that every metric of the batch reuses: the first
\* call builds it, the later calls overwrite the name, the description and the unit
metricToRowsSharedBase(h, metric, resourceAttrs, resourceSchemaURL, scope, scopeSchemaURL) ==
    LET baseRow == 1
        h1 == IF h = <<>>
              THEN <<metricBaseRow(metric, resourceAttrs, resourceSchemaURL, scope, scopeSchemaURL)>>
              ELSE SetFields(h, baseRow,
                             [col \in {"metric_name", "metric_description", "metric_unit"} |->
                                 metricBaseRow(metric, resourceAttrs, resourceSchemaURL, scope,
                                               scopeSchemaURL)[col]])
        res == CASE metric.type = "gauge" -> gaugeToRows(h1, metric, baseRow)
                 [] metric.type = "sum" -> sumToRows(h1, metric, baseRow)
                 [] metric.type = "histogram" -> histogramToRows(h1, metric, baseRow)
                 [] metric.type = "summary" -> summaryToRows(h1, metric, baseRow)
                 [] metric.type = "exponential_histogram" ->
                        exponentialHistogramToRows(h1, metric, baseRow)
                 [] OTHER -> [h |-> h1, rows |-> <<>>]
    IN [h |-> res.h, rows |-> res.rows, base |-> baseRow]

\* Returns [h, rows, base]; rows is empty for a metric of no known type
metricToRows(h, metric, resourceAttrs, resourceSchemaURL, scope, scopeSchemaURL) ==
    LET baseRow == Len(h) + 1
        h1 == Append(h, metricBaseRow(metric, resourceAttrs, resourceSchemaURL, scope, scopeSchemaURL))
        res == CASE metric.type = "gauge" -> gaugeToRows(h1, metric, baseRow)
                 [] metric.type = "sum" -> sumToRows(h1, metric, baseRow)
                 [] metric.type = "histogram" -> histogramToRows(h1, metric, baseRow)
                 [] metric.type = "summary" -> summaryToRows(h1, metric, baseRow)
                 [] metric.type = "exponential_histogram" ->
                        exponentialHistogramToRows(h1, metric, baseRow)
                 [] OTHER -> [h |-> h1, rows |-> <<>>]
    IN [h |-> res.h, rows |-> res.rows, base |-> baseRow]

metricsToRows(md) ==
    FoldSeq(LAMBDA acc1, rm :
        FoldSeq(LAMBDA acc2, sm :
            FoldSeq(LAMBDA acc3, metric :
                LET metricRows == metricToRows(acc3.h, metric, rm.attrs, rm.schemaUrl,
                                               sm.scope, sm.schemaUrl)
                IN [h |-> metricRows.h, rows |-> acc3.rows \o metricRows.rows,
                    bases |-> Append(acc3.bases, metricRows.base)],
                acc2, sm.items),
            acc1, rm.scopes),
        NoRows, md.resources)

-----------------------------------------------------------------------------
(* The batches the pipeline hands to the exporter.  A batch is             *)
(* [signal, resources]; a resource grouping [attrs, schemaUrl, scopes]; a  *)
(* scope grouping [scope, schemaUrl, items], its items the spans, the log  *)
(* records or the metrics; a metric carries its data points in dps.        *)

TraceIDA == [i \in 1 .. TraceIDLen |-> i]
SpanIDA == [i \in 1 .. SpanIDLen |-> 16 * i + 11]
NoSpanID == [i \in 1 .. SpanIDLen |-> 0]
NoTraceID == [i \in 1 .. TraceIDLen |-> 0]

NoAttrs == <<>>
StrAttrs == "a" :> Str(<<"v">>)
MixedAttrs == ("a" :> I64(1)) @@ ("b" :> Bool(TRUE))
NaNAttrs == "a" :> NaN

\* The i-th resource grouping of a batch: the groupings of a batch differ in their attributes
ResourceAt(i) ==
    [attrs |-> IF i % 2 = 1 THEN StrAttrs ELSE NoAttrs, schemaUrl |-> <<>>, scopes |-> <<>>]

\* The i-th scope grouping of a batch: scopes with and without attributes alternate
ScopeAt(i) ==
    [scope |-> [name |-> <<"lib">>, version |-> <<"1.0">>,
                attrs |-> IF i % 2 = 1 THEN NoAttrs ELSE MixedAttrs],
     schemaUrl |-> <<>>, items |-> <<>>]

Event(attrs) == [ts |-> 3, name |-> <<"event-with-attr">>, attrs |-> attrs, dropped |-> 1]
Link(attrs) ==
    [traceID |-> TraceIDA, spanID |-> SpanIDA, traceState |-> <<>>, attrs |-> attrs,
     dropped |-> 0, flags |-> 1]

Span(name, kind, code, parent, attrs, events, links) ==
    [traceID |-> TraceIDA, spanID |-> SpanIDA, parentSpanID |-> parent,
     traceState |-> <<>>, name |-> <<name>>, kind |-> kind, start |-> 1, end |-> 2,
     statusCode |-> code, statusMessage |-> IF code = 2 THEN <<"status-cancelled">> ELSE <<>>,
     flags |-> 0, droppedAttributes |-> 1, droppedEvents |-> 1, droppedLinks |-> 1,
     attrs |-> attrs, events |-> events, links |-> links]

Spans ==
    {Span(name, 2, 2, NoSpanID, NoAttrs, <<>>, <<>>) : name \in {"operationA", "operationB"}}
    \cup {Span("operationA", 0, 0, SpanIDA, StrAttrs, <<Event(StrAttrs)>>, <<Link(NoAttrs)>>),
          Span("operationB", 3, 1, SpanIDA, NaNAttrs, <<Event(NoAttrs), Event(NaNAttrs)>>, <<>>)}

\* The identifiers a span can carry: a trace id and a span id that are set or all zero,
\* of a root span or of a child
SpanIDSets ==
    << [traceID |-> TraceIDA, spanID |-> SpanIDA, parentSpanID |-> NoSpanID],
       [traceID |-> TraceIDA, spanID |-> SpanIDA, parentSpanID |-> SpanIDA],
       [traceID |-> NoTraceID, spanID |-> NoSpanID, parentSpanID |-> NoSpanID] >>

\* The values of ptrace.SpanKind and ptrace.StatusCode, both int32 enumerations: the
\* declared ones and one beyond them
SpanKinds == 0 .. 6
StatusCodes == 0 .. 3

\* Spans of every kind and status code, each with one of the sets of identifiers
SpanVariants ==
    {LET ids == SpanIDSets[((kind + code) % 3) + 1]
     IN [Span("operationA", kind, code, ids.parentSpanID, NoAttrs, <<>>, <<>>)
            EXCEPT !.traceID = ids.traceID, !.spanID = ids.spanID]
        : kind \in SpanKinds, code \in StatusCodes}

Body(type, v, m, e) == [type |-> type, v |-> v, m |-> m, e |-> e]

Bodies ==
    {Body("str", Str(<<"This is a log message">>), <<>>, <<>>),
     Body("str", Str(<<"something happened">>), <<>>, <<>>),
     Body("empty", Nil, <<>>, <<>>),
     Body("int", I64(5), <<>>, <<>>),
     Body("map", Nil, StrAttrs, <<>>),
     Body("slice", Nil, <<>>, <<Str(<<"v">>), NaN>>)}

LogRecords ==
    {[observedTs |-> 2, ts |-> 1, traceID |-> IF b.type = "str" THEN TraceIDA ELSE NoTraceID,
      spanID |-> IF b.type = "str" THEN SpanIDA ELSE NoSpanID,
      severityNumber |-> 9, severityText |-> <<"Info">>, body |-> b, flags |-> 1,
      droppedAttributes |-> 1,
      attrs |-> IF b.type = "map" THEN NaNAttrs ELSE IF b.type = "int" THEN StrAttrs ELSE NoAttrs]
        : b \in Bodies}

Metric(type, temporality, monotonic) ==
    [name |-> <<type>>, description |-> <<>>, unit |-> <<"1">>, type |-> type,
     temporality |-> temporality, monotonic |-> monotonic, dps |-> <<>>]

\* pmetric.MetricTypeEmpty is the type of a metric no data was set on
Metrics ==
    {Metric("gauge", 0, FALSE), Metric("sum", 2, TRUE),
     Metric("histogram", 0, FALSE), Metric("summary", 0, FALSE),
     Metric("exponential_histogram", 1, FALSE), Metric("empty", 0, FALSE)}

Exemplar(valueType, d) ==
    [ts |-> 4, traceID |-> TraceIDA, spanID |-> SpanIDA, filteredAttrs |-> NoAttrs,
     valueType |-> valueType, intValue |-> 6, doubleValue |-> d]

Point(ts, attrs) == [ts |-> ts, start |-> 1, flags |-> 0, attrs |-> attrs]

NumberDataPoints ==
    {Point(5, NoAttrs) @@ [exemplars |-> <<>>, valueType |-> "int", intValue |-> 7,
                            doubleValue |-> F64(0)],
     Point(6, StrAttrs) @@ [exemplars |-> <<Exemplar("int", F64(0))>>, valueType |-> "double",
                             intValue |-> 0, doubleValue |-> F64(8)],
     Point(7, NaNAttrs) @@ [exemplars |-> <<Exemplar("double", NaN)>>, valueType |-> "double",
                             intValue |-> 0, doubleValue |-> NaN],
     Point(8, NoAttrs) @@ [exemplars |-> <<>>, valueType |-> "empty", intValue |-> 0,
                            doubleValue |-> F64(0)]}

Stats(hasSum, hasMin, hasMax) ==
    [count |-> 2, hasSum |-> hasSum, sum |-> F64(IF hasSum THEN 9 ELSE 0),
     hasMin |-> hasMin, min |-> F64(IF hasMin THEN 4 ELSE 0),
     hasMax |-> hasMax, max |-> F64(IF hasMax THEN 5 ELSE 0)]

\* Which of sum, min and max a histogram data point has
StatFlags == {<<FALSE, FALSE, FALSE>>, <<TRUE, FALSE, FALSE>>, <<FALSE, TRUE, FALSE>>,
              <<FALSE, FALSE, TRUE>>, <<TRUE, TRUE, TRUE>>}

HistogramDataPoints ==
    {Point(5, NoAttrs) @@ Stats(f[1], f[2], f[3]) @@
        [exemplars |-> <<>>,
         bucketCounts |-> IF f[1] THEN <<1, 1>> ELSE <<>>,
         explicitBounds |-> IF f[1] THEN (IF f[2] THEN <<PosInf>> ELSE <<F64(10)>>) ELSE <<>>]
        : f \in StatFlags}

SummaryDataPoints ==
    {Point(5, NoAttrs) @@ [count |-> 2, sum |-> F64(9), quantiles |-> q]
        : q \in {<<>>, <<[quantile |-> F64(1), value |-> F64(9)]>>,
                 <<[quantile |-> F64(0), value |-> NaN]>>}}

Buckets(counts) == [offset |-> 0, bucketCounts |-> counts]

ExponentialHistogramDataPoints ==
    {Point(5, NoAttrs) @@ Stats(f[1], f[2], f[3]) @@
        [exemplars |-> <<>>, zeroThreshold |-> F64(0), scale |-> 1, zeroCount |-> 1,
         positive |-> Buckets(IF f[3] THEN <<1>> ELSE <<>>), negative |-> Buckets(<<>>)]
        : f \in {<<TRUE, FALSE, TRUE>>, <<FALSE, TRUE, FALSE>>}}

\* The data points a metric of the given type can carry.  Where the groupings vary
\* ("shape") the points are two number points.
DataPoints(m, type) ==
    LET all == CASE type \in {"gauge", "sum"} -> NumberDataPoints
                 [] type = "histogram" -> HistogramDataPoints
                 [] type = "summary" -> SummaryDataPoints
                 [] type = "exponential_histogram" -> ExponentialHistogramDataPoints
                 [] OTHER -> {}
    IN IF m = "shape"
       THEN {dp \in all : dp.ts \in {5, 6}}
       ELSE all

\* The spans, log records or metrics a scope grouping can carry.  Where the groupings
\* vary the leaves are the two spans and the two log records of the tests, and the
\* metrics a gauge and a metric of no type; where the fields of a span vary ("fields")
\* the spans are the span variants.
Leaves(m, signal) ==
    CASE signal = "traces" -> IF m = "shape" THEN {sp \in Spans : sp.attrs = NoAttrs}
                              ELSE IF m = "fields" THEN SpanVariants ELSE Spans
      [] signal = "logs" -> IF m = "shape" THEN {lr \in LogRecords : lr.body.type = "str"}
                            ELSE LogRecords
      [] signal = "metrics" -> IF m = "shape"
                               THEN {mt \in Metrics : mt.type \in {"gauge", "empty"}}
                               ELSE Metrics

Signals == {"traces", "metrics", "logs"}

-----------------------------------------------------------------------------
(* The pipeline assembles a batch, as the pdata AppendEmpty calls of the   *)
(* receivers and of the tests do; the exporter then projects it.           *)

NumResources(b) == Len(b.resources)
NumScopes(b) == Len(b.resources[NumResources(b)].scopes)
LastScope(b) == b.resources[NumResources(b)].scopes[NumScopes(b)]
NumItems(b) == Len(LastScope(b).items)
LastItem(b) == LastScope(b).items[NumItems(b)]

\* The leaf records of a batch in traversal order, each with its groupings
LeafSeq(b) ==
    FoldSeq(LAMBDA acc1, rs :
        FoldSeq(LAMBDA acc2, ss :
            FoldSeq(LAMBDA acc3, item :
                IF b.signal = "metrics"
                THEN acc3 \o [i \in 1 .. Len(item.dps) |->
                                 [rs |-> rs, ss |-> ss, metric |-> item, leaf |-> item.dps[i]]]
                ELSE Append(acc3, [rs |-> rs, ss |-> ss, leaf |-> item]),
                acc2, ss.items),
            acc1, rs.scopes),
        <<>>, b.resources)

NumLeaves(b) == Len(LeafSeq(b))

\* The scope groupings and the items of the whole batch
TotalScopes(b) == FoldSeq(LAMBDA n, rs : n + Len(rs.scopes), 0, b.resources)
TotalItems(b) ==
    FoldSeq(LAMBDA n1, rs : FoldSeq(LAMBDA n2, ss : n2 + Len(ss.items), n1, rs.scopes),
            0, b.resources)

\* The characters of a configuration string, by class
UpperCase ==
    {"A", "B", "C", "D", "E", "F", "G", "H", "I", "J", "K", "L", "M", "N", "O", "P", "Q", "R",
     "S", "T", "U", "V", "W", "X", "Y", "Z"}
LowerCase ==
    {"a", "b", "c", "d", "e", "f", "g", "h", "i", "j", "k", "l", "m", "n", "o", "p", "q", "r",
     "s", "t", "u", "v", "w", "x", "y", "z"}
Digits == {"0", "1", "2", "3", "4", "5", "6", "7", "8", "9"}
WhiteSpace == {" ", "\t", "\n", "\r"}

maxIdentifierLength == 1024

\* One step of the automaton of ^[A-Za-z_][A-Za-z0-9_]*$
MatchStep(st, ch) ==
    CASE st = "start" /\ ch \in UpperCase \cup LowerCase \cup {"_"} -> "rest"
      [] st = "rest" /\ ch \in UpperCase \cup LowerCase \cup Digits \cup {"_"} -> "rest"
      [] OTHER -> "fail"

\* The state of the automaton after the characters lo .. hi of the value
RECURSIVE MatchRun(_, _, _, _)
MatchRun(st, value, lo, hi) ==
    IF st = "fail" \/ lo > hi THEN st
    ELSE IF lo = hi THEN MatchStep(st, value[lo])
    ELSE LET mid == (lo + hi) \div 2
         IN MatchRun(MatchRun(st, value, lo, mid), value, mid + 1, hi)

\* bigQueryIdentifierPattern.MatchString
MatchString(value) == MatchRun("start", value, 1, Len(value)) = "rest"

\* strings.TrimSpace
RECURSIVE TrimSpace(_)
TrimSpace(text) ==
    IF text = <<>> THEN <<>>
    ELSE IF Head(text) \in WhiteSpace THEN TrimSpace(Tail(text))
    ELSE IF text[Len(text)] \in WhiteSpace THEN TrimSpace(SubSeq(text, 1, Len(text) - 1))
    ELSE text

\* An error is the pair of the field and of what is wrong with it
Error(field, what) == <<field, what>>

\* Variant: no limit on the length of an identifier
validateIdentifierAnyLength(field, value) ==
    IF value = <<>> THEN Error(field, "is required")
    ELSE IF ~MatchString(value) THEN Error(field, "must match")
    ELSE "nil"

validateIdentifier(field, value) ==
    IF value = <<>> THEN Error(field, "is required")
    ELSE IF Len(value) > maxIdentifierLength THEN Error(field, "length must be <=")
    ELSE IF ~MatchString(value) THEN Error(field, "must match")
    ELSE "nil"

Validate(c) ==
    IF c.id = <<>> THEN Error("dataset.id", "is required")
    ELSE IF c.project # <<>> /\ TrimSpace(c.project) # c.project
    THEN Error("dataset.project", "must not contain leading or trailing whitespace")
    ELSE IF validateIdentifier("dataset.id", c.id) # "nil"
    THEN validateIdentifier("dataset.id", c.id)
    ELSE IF validateIdentifier("dataset.trace_table", c.trace) # "nil"
    THEN validateIdentifier("dataset.trace_table", c.trace)
    ELSE IF validateIdentifier("dataset.metric_table", c.metric) # "nil"
    THEN validateIdentifier("dataset.metric_table", c.metric)
    ELSE IF validateIdentifier("dataset.log_table", c.log) # "nil"
    THEN validateIdentifier("dataset.log_table", c.log)
    ELSE "nil"

createDefaultConfig ==
    [project |-> <<>>, id |-> <<>>, trace |-> <<"t", "r", "a", "c", "e">>,
     metric |-> <<"m", "e", "t", "r", "i", "c">>, log |-> <<"l", "o", "g">>]

NoResult == [state |-> "none", msg |-> <<>>, b |-> <<>>, col |-> ""]
NoInput == [desc |-> <<>>, row |-> <<>>]

\* A *storageAppender that is nil; an exporter no factory function has created yet
NilAppender == [stream |-> "nil", desc |-> <<>>]
NoExporter ==
    [state |-> "none", project |-> FALSE, client |-> "nil", writeClient |-> "nil",
     appenders |-> [t \in Signals |-> NilAppender], ops |-> <<>>]
NoExporters == [s \in Signals |-> NoExporter]
NoDataset == [dataset |-> FALSE, tables |-> {}]
IdleCall == [pc |-> "idle", signal |-> "none", batch |-> <<>>, rows |-> <<>>,
             serialized |-> <<>>, err |-> "none", col |-> "", at |-> "none"]
NoCalls == [c \in 1 .. MaxCalls |-> IdleCall]

\* Batches of one resource and one scope grouping, with leaves of every kind
Init ==
    /\ mode = "content"
    /\ batch = [signal |-> "none", resources |-> <<>>]
    /\ pc = "build"
    /\ heap = <<>>
    /\ rows = <<>>
    /\ bases = <<>>
    /\ encIn = NoInput
    /\ encOut = NoResult
    /\ exporters = NoExporters
    /\ bq = NoDataset
    /\ faults = 0
    /\ calls = NoCalls
    /\ stream = <<>>
    /\ cfg = createDefaultConfig
    /\ cfgErr = "none"

AppendResource(signal) ==
    /\ pc = "build"
    /\ batch.signal \in {"none", signal}
    /\ NumResources(batch) < (IF mode = "shape" THEN MaxResources ELSE 1)
    /\ batch' = [signal |-> signal,
                 resources |-> Append(batch.resources, ResourceAt(NumResources(batch) + 1))]
    /\ UNCHANGED <<mode, pc, heap, rows, bases, encIn, encOut>>
    /\ UNCHANGED lifeVars

AppendScope ==
    /\ pc = "build"
    /\ NumResources(batch) > 0
    /\ TotalScopes(batch) < (IF mode = "shape" THEN MaxScopes ELSE 1)
    /\ batch' = [batch EXCEPT !.resources[NumResources(batch)].scopes =
                                  Append(@, ScopeAt(TotalScopes(batch) + 1))]
    /\ UNCHANGED <<mode, pc, heap, rows, bases, encIn, encOut>>
    /\ UNCHANGED lifeVars

\* Spans().AppendEmpty(), LogRecords().AppendEmpty(), Metrics().AppendEmpty() and the setters
AppendItem ==
    /\ pc = "build"
    /\ NumResources(batch) > 0
    /\ NumScopes(batch) > 0
    /\ IF batch.signal = "metrics"
       THEN TotalItems(batch) < MaxMetrics
       ELSE NumLeaves(batch) < MaxLeaves
    /\ \E x \in Leaves(mode, batch.signal) :
          batch' = [batch EXCEPT !.resources[NumResources(batch)].scopes[NumScopes(batch)].items =
                                     Append(@, x)]
    /\ UNCHANGED <<mode, pc, heap, rows, bases, encIn, encOut>>
    /\ UNCHANGED lifeVars

\* DataPoints().AppendEmpty() on the metric appended last
AppendDataPoint ==
    /\ pc = "build"
    /\ batch.signal = "metrics"
    /\ NumResources(batch) > 0
    /\ NumScopes(batch) > 0
    /\ NumItems(batch) > 0
    /\ NumLeaves(batch) < MaxLeaves
    /\ \E dp \in DataPoints(mode, LastItem(batch).type) :
          batch' = [batch EXCEPT
                       !.resources[NumResources(batch)].scopes[NumScopes(batch)].items[NumItems(batch)].dps =
                           Append(@, dp)]
    /\ UNCHANGED <<mode, pc, heap, rows, bases, encIn, encOut>>
    /\ UNCHANGED lifeVars

\* rows := tracesToRows(td) / metricsToRows(md) / logsToRows(ld)
Project(signal) ==
    /\ pc = "build"
    /\ batch.signal \in {"none", signal}
    /\ LET res == CASE signal = "traces" -> tracesToRows(batch)
                    [] signal = "metrics" -> metricsToRows(batch)
                    [] signal = "logs" -> logsToRows(batch)
       IN /\ heap' = res.h
          /\ rows' = res.rows
          /\ bases' = res.bases
    /\ batch' = [batch EXCEPT !.signal = signal]
    /\ pc' = "done"
    /\ UNCHANGED <<mode, encIn, encOut>>
    /\ UNCHANGED lifeVars

Next ==
    \/ \E signal \in Signals : AppendResource(signal)
    \/ AppendScope
    \/ AppendItem
    \/ AppendDataPoint
    \/ \E signal \in Signals : Project(signal)

Spec == Init /\ [][Next]_vars

\* Batches of several resource and scope groupings, with few kinds of leaf
InitShape ==
    /\ mode = "shape"
    /\ batch = [signal |-> "none", resources |-> <<>>]
    /\ pc = "build"
    /\ heap = <<>>
    /\ rows = <<>>
    /\ bases = <<>>
    /\ encIn = NoInput
    /\ encOut = NoResult
    /\ exporters = NoExporters
    /\ bq = NoDataset
    /\ faults = 0
    /\ calls = NoCalls
    /\ stream = <<>>
    /\ cfg = createDefaultConfig
    /\ cfgErr = "none"

SpecShape == InitShape /\ [][Next]_vars

-----------------------------------------------------------------------------
(* Properties of the projection *)

Done == pc = "done"

\* The i-th row of the result
Row(i) == heap[rows[i]]

SchemaOf(signal) ==
    CASE signal = "traces" -> tracesSchema
      [] signal = "metrics" -> metricsSchema
      [] signal = "logs" -> logsSchema

Columns(signal) == {SchemaOf(signal)[i][1] : i \in DOMAIN SchemaOf(signal)}

JSONColumns(signal) ==
    {SchemaOf(signal)[i][1] : i \in {j \in DOMAIN SchemaOf(signal) : SchemaOf(signal)[j][2] = "JSON"}}

\* The columns that tell which leaf record, of which groupings, a row was made from
KeyOfRow(signal, r) ==
    CASE signal = "traces" ->
            <<r["resource_attributes"], r["instrumentation_scope"], r["name"], r["span_attributes"]>>
      [] signal = "logs" ->
            <<r["resource_attributes"], r["instrumentation_scope"], r["body"], r["log_attributes"]>>
      [] signal = "metrics" ->
            <<r["resource_attributes"], r["instrumentation_scope"], r["metric_name"],
              r["datapoint_timestamp"], r["datapoint_attributes"]>>

KeyOfLeaf(signal, l) ==
    CASE signal = "traces" ->
            <<Str(attributesToJSON(l.rs.attrs)), Str(scopeToJSON(l.ss.scope)),
              Str(l.leaf.name), Str(attributesToJSON(l.leaf.attrs))>>
      [] signal = "logs" ->
            <<Str(attributesToJSON(l.rs.attrs)), Str(scopeToJSON(l.ss.scope)),
              Str(bodyToString(l.leaf.body)), Str(attributesToJSON(l.leaf.attrs))>>
      [] signal = "metrics" ->
            <<Str(attributesToJSON(l.rs.attrs)), Str(scopeToJSON(l.ss.scope)),
              Str(l.metric.name), AsTime(l.leaf.ts), Str(attributesToJSON(l.leaf.attrs))>>

\* C1: a projection returns exactly as many rows as the batch has leaf records
\* (spans, data points, log records) over all its resource and scope groupings;
\* a batch without leaf records yields no row.
C1_RowCount == Done => Len(rows) = NumLeaves(batch)

C1_Witness ==
    /\ Done
    /\ batch.signal = "metrics"
    /\ NumResources(batch) = 2
    /\ TotalItems(batch) = 2
    /\ Len(rows) = 2
    /\ Row(1)["resource_attributes"] # Row(2)["resource_attributes"]

\* C2: the rows are in traversal order: the i-th row is the row of the i-th leaf
\* record in resource, scope, (metric,) leaf order.
C2_RowOrder ==
    Done => /\ Len(rows) = NumLeaves(batch)
            /\ \A i \in 1 .. Len(rows) :
                  KeyOfRow(batch.signal, Row(i)) = KeyOfLeaf(batch.signal, LeafSeq(batch)[i])

C2_Witness ==
    /\ Done
    /\ batch.signal = "traces"
    /\ NumResources(batch) = 2
    /\ Len(rows) = 2
    /\ Row(1)["resource_attributes"] # Row(2)["resource_attributes"]
    /\ Row(1)["name"] # Row(2)["name"]

\* C3: every JSON-typed column of every projected row holds valid JSON text,
\* never the empty string or null, also for values the marshaller cannot represent.
C3_JSONColumnsValid ==
    Done => \A i \in 1 .. Len(rows) : \A col \in JSONColumns(batch.signal) :
                /\ col \in DOMAIN Row(i)
                /\ Row(i)[col].t = "string"
                /\ ValidJSON(Row(i)[col].s)

IsNumberRow(i) == LeafSeq(batch)[i].metric.type \in {"gauge", "sum"}

\* C4 as claimed: every gauge or sum row has exactly one of value_int and
\* value_double non-null.
C4_ExactlyOneValue ==
    (Done /\ batch.signal = "metrics") =>
        \A i \in 1 .. Len(rows) :
            IsNumberRow(i) => (Row(i)["value_int"] = Nil) # (Row(i)["value_double"] = Nil)

\* C4 amended: in a gauge or sum row value_int is non-null exactly when the point's
\* value kind is integer and value_double exactly when it is double, each holding
\* the point's value; a point with no value set has both null.
C4_ValueByKind ==
    (Done /\ batch.signal = "metrics") =>
        \A i \in 1 .. Len(rows) :
            IsNumberRow(i) =>
                LET dp == LeafSeq(batch)[i].leaf IN
                /\ Row(i)["value_int"] = IF dp.valueType = "int" THEN I64(dp.intValue) ELSE Nil
                /\ Row(i)["value_double"] = IF dp.valueType = "double" THEN dp.doubleValue ELSE Nil

C4_Witness ==
    /\ Done
    /\ batch.signal = "metrics"
    /\ Len(rows) = 2
    /\ IsNumberRow(1) /\ IsNumberRow(2)
    /\ Row(1)["value_int"] # Nil /\ Row(1)["value_double"] = Nil
    /\ Row(2)["value_int"] = Nil /\ Row(2)["value_double"] # Nil

\* The columns a data point's row is written to after the clone
DataPointColumns ==
    {"metric_type", "datapoint_timestamp", "start_timestamp", "flags", "datapoint_attributes",
     "exemplars", "value_int", "value_double", "count", "sum", "min", "max", "quantiles",
     "bucket_counts", "explicit_bounds", "zero_threshold"}

\* C5: the row of a data point is a map of its own: no two rows, and no row and base
\* row, are the same map; the base rows keep the defaults of metricBaseRow in every
\* data point column; and each row holds the timestamp, attributes and count of its
\* own data point, not those written to a later row.
C5_IndependentRows ==
    (Done /\ batch.signal = "metrics") =>
        /\ \A i, j \in 1 .. Len(rows) : i # j => rows[i] # rows[j]
        /\ \A i \in 1 .. Len(rows), k \in 1 .. Len(bases) : rows[i] # bases[k]
        /\ \A k \in 1 .. Len(bases) : \A col \in DataPointColumns :
              heap[bases[k]][col] =
                  metricBaseRow(Metric("gauge", 0, FALSE), NoAttrs, <<>>, ScopeAt(1).scope, <<>>)[col]
        /\ \A i \in 1 .. Len(rows) :
              LET dp == LeafSeq(batch)[i].leaf IN
              /\ Row(i)["datapoint_timestamp"] = AsTime(dp.ts)
              /\ Row(i)["datapoint_attributes"] = Str(attributesToJSON(dp.attrs))
              /\ "count" \in DOMAIN dp => Row(i)["count"] = U64(dp.count)
              /\ "hasSum" \in DOMAIN dp => (Row(i)["sum"] # Nil) = dp.hasSum

C5_Witness ==
    /\ Done
    /\ batch.signal = "metrics"
    /\ Len(bases) = 1
    /\ Len(rows) = 2
    /\ Row(1)["datapoint_timestamp"] # Row(2)["datapoint_timestamp"]
    /\ Row(1)["datapoint_attributes"] # Row(2)["datapoint_attributes"]

\* The metrics of a batch in traversal order
MetricSeq(b) ==
    FoldSeq(LAMBDA acc1, rs : FoldSeq(LAMBDA acc2, ss : acc2 \o ss.items, acc1, rs.scopes),
            <<>>, b.resources)

RowsNamed(name) == {i \in 1 .. Len(rows) : Row(i)["metric_name"] = Str(name)}

RECURSIVE SumSeq(_)
SumSeq(s) == IF s = <<>> THEN 0 ELSE Head(s) + SumSeq(Tail(s))

PointsNamed(name) ==
    SumSeq([k \in 1 .. Len(MetricSeq(batch)) |->
               IF MetricSeq(batch)[k].name = name THEN Len(MetricSeq(batch)[k].dps) ELSE 0])

\* C6: a metric without data points and a metric of no known type contribute no row
\* and do not stop the projection: every metric of the batch is visited and the rows
\* of each metric name are as many as the data points of the metrics of that name.
C6_SkippedMetrics ==
    (Done /\ batch.signal = "metrics") =>
        /\ Len(bases) = Len(MetricSeq(batch))
        /\ \A k \in 1 .. Len(MetricSeq(batch)) :
              Cardinality(RowsNamed(MetricSeq(batch)[k].name)) = PointsNamed(MetricSeq(batch)[k].name)
        /\ RowsNamed(<<"empty">>) = {}

C6_Witness ==
    /\ Done
    /\ batch.signal = "metrics"
    /\ Len(MetricSeq(batch)) = 2
    /\ MetricSeq(batch)[1].type = "empty"
    /\ MetricSeq(batch)[2].type = "summary"
    /\ Len(rows) = 2

IsHistogramRow(i) == LeafSeq(batch)[i].metric.type \in {"histogram", "exponential_histogram"}

\* C7: in a histogram or exponential histogram row sum, min and max are non-null
\* exactly when the data point has them, and hold its values; count is always set.
C7_OptionalStats ==
    (Done /\ batch.signal = "metrics") =>
        \A i \in 1 .. Len(rows) :
            IsHistogramRow(i) =>
                LET dp == LeafSeq(batch)[i].leaf IN
                /\ Row(i)["sum"] = IF dp.hasSum THEN dp.sum ELSE Nil
                /\ Row(i)["min"] = IF dp.hasMin THEN dp.min ELSE Nil
                /\ Row(i)["max"] = IF dp.hasMax THEN dp.max ELSE Nil
                /\ Row(i)["count"] = U64(dp.count)

C7_Witness ==
    /\ Done
    /\ batch.signal = "metrics"
    /\ Len(rows) = 2
    /\ LeafSeq(batch)[1].metric.type = "histogram"
    /\ LeafSeq(batch)[2].metric.type = "exponential_histogram"
    /\ Row(1)["sum"] # Nil /\ Row(1)["min"] = Nil /\ Row(1)["max"] = Nil
    /\ Row(2)["sum"] = Nil /\ Row(2)["min"] # Nil

\* C8: every key of every projected row is a column of the schema of its signal.
C8_KeysInSchema ==
    Done => \A i \in 1 .. Len(rows) : DOMAIN Row(i) \subseteq Columns(batch.signal)

C8_Witness ==
    /\ Done
    /\ Len(rows) = 2
    /\ batch.signal = "metrics"
    /\ LeafSeq(batch)[1].metric.type = "sum"
    /\ LeafSeq(batch)[2].metric.type = "exponential_histogram"
    /\ DOMAIN Row(1) = Columns("metrics")

\* The aggregation_temporality and is_monotonic a row of the metric holds when no
\* other metric has a part in it: those of a sum, the temporality of a histogram or
\* an exponential histogram, and the "" and false of metricBaseRow otherwise
OwnTemporality(metric) ==
    IF metric.type \in {"sum", "histogram", "exponential_histogram"}
    THEN Str(aggregationTemporalityToString(metric.temporality))
    ELSE Str(<<>>)

OwnMonotonic(metric) == Bool(metric.type = "sum" /\ metric.monotonic)

\* C17: every metric has a base row of its own: the base rows of a batch are distinct
\* maps, none of them a row of the result, and the aggregation_temporality and
\* is_monotonic of a row, and of a base row, are those of its own metric, whatever
\* metric came before.
C17_FreshBaseRows ==
    (Done /\ batch.signal = "metrics") =>
        /\ Cardinality({bases[k] : k \in DOMAIN bases}) = Len(bases)
        /\ \A k \in DOMAIN bases : \A i \in DOMAIN rows : bases[k] # rows[i]
        /\ Len(bases) = Len(MetricSeq(batch))
        /\ \A k \in DOMAIN bases :
              /\ heap[bases[k]]["metric_name"] = Str(MetricSeq(batch)[k].name)
              /\ heap[bases[k]]["aggregation_temporality"] = OwnTemporality(MetricSeq(batch)[k])
              /\ heap[bases[k]]["is_monotonic"] = OwnMonotonic(MetricSeq(batch)[k])
        /\ \A i \in DOMAIN rows :
              /\ Row(i)["aggregation_temporality"] = OwnTemporality(LeafSeq(batch)[i].metric)
              /\ Row(i)["is_monotonic"] = OwnMonotonic(LeafSeq(batch)[i].metric)

C17_Witness ==
    /\ Done
    /\ batch.signal = "metrics"
    /\ Len(rows) = 2
    /\ LeafSeq(batch)[1].metric.type = "sum"
    /\ LeafSeq(batch)[2].metric.type = "gauge"
    /\ Row(1)["aggregation_temporality"] = Str(<<"CUMULATIVE">>)
    /\ Row(1)["is_monotonic"] = Bool(TRUE)
    /\ Row(2)["aggregation_temporality"] = Str(<<>>)
    /\ Row(2)["is_monotonic"] = Bool(FALSE)

\* The names of the metric types that have data points
MetricTypeNames ==
    [gauge |-> <<"GAUGE">>, sum |-> <<"SUM">>, histogram |-> <<"HISTOGRAM">>,
     summary |-> <<"SUMMARY">>, exponential_histogram |-> <<"EXPONENTIAL_HISTOGRAM">>]

\* C18: the metric_type of a metrics row is the upper-case name of the type of the
\* metric of its data point, never the "" of the base row, so that there are as many
\* rows of a type as the batch has data points in metrics of that type.
C18_MetricType ==
    (Done /\ batch.signal = "metrics") =>
        /\ \A i \in DOMAIN rows :
              /\ LeafSeq(batch)[i].metric.type \in DOMAIN MetricTypeNames
              /\ Row(i)["metric_type"] = Str(MetricTypeNames[LeafSeq(batch)[i].metric.type])
        /\ \A type \in DOMAIN MetricTypeNames :
              Cardinality({i \in DOMAIN rows : Row(i)["metric_type"] = Str(MetricTypeNames[type])})
                = SumSeq([k \in DOMAIN MetricSeq(batch) |->
                             IF MetricSeq(batch)[k].type = type
                             THEN Len(MetricSeq(batch)[k].dps) ELSE 0])

C18_Witness ==
    /\ Done
    /\ batch.signal = "metrics"
    /\ Len(rows) = 2
    /\ Row(1)["metric_type"] = Str(<<"EXPONENTIAL_HISTOGRAM">>)
    /\ Row(2)["metric_type"] = Str(<<"SUMMARY">>)

Temporalities == {Str(<<"CUMULATIVE">>), Str(<<"DELTA">>), Str(<<"UNSPECIFIED">>)}

-----------------------------------------------------------------------------
(* The row encoder.  A message descriptor is the sequence of its fields    *)
(* [name, kind, inner, required]: kind the protoreflect.Kind, inner the    *)
(* kind of the field named "value" of a message-kind field ("none" when    *)
(* the message has no such field), required the proto2 label that the      *)
(* adapter gives a column of mode REQUIRED.  A protoreflect.Value is       *)
(* [kind, s, n].                                                            *)

Field(name, kind, inner, required) ==
    [name |-> name, kind |-> kind, inner |-> inner, required |-> required]

PV(kind, s, n) == [kind |-> kind, s |-> s, n |-> n]

\* time.Time.UnixMicro; the zero time.Time lies before the epoch, out of the model's integers
UnixMicro(t) == IF t = ZeroTime THEN PV("int64", <<"-62135596800000000">>, 0)
                ELSE PV("int64", <<>>, t.n \div 1000)

\* The coercion functions return [ok, v]
Failed == [ok |-> FALSE, v |-> PV("none", <<>>, 0)]
Coerced(v) == [ok |-> TRUE, v |-> v]

\* asString that renders a value of another type as text instead of failing
asStringStringifying(value) ==
    IF value.t = "string" THEN Coerced(PV("string", value.s, 0))
    ELSE Coerced(PV("string", <<value.t>>, 0))

asString(value) == IF value.t = "string" THEN Coerced(PV("string", value.s, 0)) ELSE Failed

asBool(value) == IF value.t = "bool" THEN Coerced(PV("bool", <<>>, value.n)) ELSE Failed

\* Variant: no case for time.Time
asInt64WithoutTime(value) ==
    CASE value.t \in {"int", "int64", "uint64", "uint32", "float64"} ->
            Coerced(PV("int64", <<>>, value.n))
      [] OTHER -> Failed

asInt64(value) ==
    CASE value.t \in {"int", "int64", "uint64", "uint32", "float64"} ->
            Coerced(PV("int64", <<>>, value.n))
      [] value.t = "time" -> Coerced(UnixMicro(value))
      [] OTHER -> Failed

asFloat64(value) ==
    CASE value.t \in {"float64", "float32", "int", "int64"} -> Coerced(PV("double", value.s, value.n))
      [] OTHER -> Failed

toProtoreflectValue(kind, value) ==
    CASE kind = "string" -> asString(value)
      [] kind = "bool" -> asBool(value)
      [] kind = "int64" -> asInt64(value)
      [] kind = "double" -> asFloat64(value)
      [] OTHER -> Failed

\* The wrapper message with its field "value" set, or the failure
dynamicWrapperValue(inner, value) ==
    IF inner = "none" THEN Failed
    ELSE LET c == toProtoreflectValue(inner, value)
         IN IF c.ok THEN Coerced(PV("message", c.v.s, c.v.n)) ELSE Failed

\* The value msg.Set would be given for field fd, or the failure
setFieldValue(fd, value) ==
    IF fd.kind = "message" THEN dynamicWrapperValue(fd.inner, value)
    ELSE toProtoreflectValue(fd.kind, value)

FieldNames(desc) == {desc[i].name : i \in DOMAIN desc}

\* desc.Fields().ByName(name), for a name the descriptor has
ByName(desc, name) == desc[CHOOSE i \in DOMAIN desc : desc[i].name = name]

\* proto.Marshal of a message whose required fields are set: the set fields in index order
Marshal(desc, msg) ==
    LET set == SelectSeq([i \in DOMAIN desc |-> i], LAMBDA i : desc[i].name \in DOMAIN msg)
    IN [k \in DOMAIN set |-> <<set[k], msg[desc[set[k]].name]>>]

\* proto.Marshal fails on a message that lacks a required field
Initialized(desc, msg) == \A i \in DOMAIN desc : desc[i].required => desc[i].name \in DOMAIN msg

\* The field the error of proto.Marshal names ("required field ... not set"): the
\* first required field, in the order of the descriptor, that the message lacks
RequiredNotSet(desc, msg) ==
    LET i == CHOOSE k \in DOMAIN desc :
                 /\ desc[k].required /\ desc[k].name \notin DOMAIN msg
                 /\ \A l \in 1 .. k - 1 : ~(desc[l].required /\ desc[l].name \notin DOMAIN msg)
    IN desc[i].name

EncodeResult(state, msg, b, col) == [state |-> state, msg |-> msg, b |-> b, col |-> col]

\* The results of encodeRow when the columns in toSet are handed to setFieldValue
EncodeOutcomes(desc, row, toSet) ==
    LET failing == {name \in toSet : ~setFieldValue(ByName(desc, name), row[name]).ok}
        msg == [name \in toSet |-> setFieldValue(ByName(desc, name), row[name]).v]
    IN IF failing # {}
       THEN {EncodeResult("seterr", <<>>, <<>>, name) : name \in failing}
       ELSE IF ~Initialized(desc, msg)
       THEN {EncodeResult("marshalerr", <<>>, <<>>, RequiredNotSet(desc, msg))}
       ELSE {EncodeResult("ok", msg, Marshal(desc, msg), "")}

\* encodeRow without the test for a nil value
encodeRowNilNotSkipped(desc, row) ==
    EncodeOutcomes(desc, row, {name \in DOMAIN row : name \in FieldNames(desc)})

\* The set of results of encodeRow(desc, row).  The loop ranges over a Go map, in
\* an order that varies from run to run, and returns at the first column that fails:
\* any failing column can be the one reported.
encodeRow(desc, row) ==
    EncodeOutcomes(desc, row, {name \in DOMAIN row : name \in FieldNames(desc) /\ row[name] # Nil})

-----------------------------------------------------------------------------
(* encodeRow on rows of any content *)

EncDescriptors ==
    {<<Field("s", "string", "none", req), Field("b", "bool", "none", FALSE),
       Field("i", "int64", "none", FALSE), Field("d", "double", "none", FALSE),
       Field("j", "message", "string", FALSE)>> : req \in BOOLEAN}

\* "x" is a column no descriptor has
EncColumns == {"s", "b", "i", "d", "j", "x"}

IntegerTypes == {"int", "int8", "int16", "int32", "int64", "uint", "uint8", "uint16", "uint32", "uint64"}
FloatTypes == {"float32", "float64"}

EncValues ==
    {Nil, Str(<<"v">>), Bool(TRUE), Time(5000), F64(2), V("float32", <<>>, 2),
     V("map", <<>>, 0), V("slice", <<>>, 0)}
    \cup {V(t, <<>>, 3) : t \in {"int", "int64", "uint64", "uint32", "int32", "uint8"}}

EncRows ==
    UNION {[cols -> EncValues] : cols \in {c \in SUBSET EncColumns : Cardinality(c) <= MaxRowCols}}

InitEnc ==
    /\ mode = "encode"
    /\ batch = [signal |-> "none", resources |-> <<>>]
    /\ pc = "encode"
    /\ heap = <<>>
    /\ rows = <<>>
    /\ bases = <<>>
    /\ encIn \in [desc : EncDescriptors, row : EncRows]
    /\ encOut = NoResult
    /\ exporters = NoExporters
    /\ bq = NoDataset
    /\ faults = 0
    /\ calls = NoCalls
    /\ stream = <<>>
    /\ cfg = createDefaultConfig
    /\ cfgErr = "none"

EncodeRow ==
    /\ pc = "encode"
    /\ encOut.state = "none"
    /\ encOut' \in encodeRow(encIn.desc, encIn.row)
    /\ UNCHANGED <<mode, batch, pc, heap, rows, bases, encIn>>
    /\ UNCHANGED lifeVars

NextEnc == EncodeRow

SpecEnc == InitEnc /\ [][NextEnc]_vars

Encoded == encOut.state # "none"

\* The columns of the row in hand that are in the descriptor and not null
NonNull == {name \in DOMAIN encIn.row : name \in FieldNames(encIn.desc) /\ encIn.row[name] # Nil}

C10_NumericCoercionTotal ==
    encOut.state = "seterr" =>
        LET fd == ByName(encIn.desc, encOut.col)
            value == encIn.row[encOut.col]
        IN /\ ~(fd.kind = "int64" /\ value.t \in IntegerTypes)
           /\ ~(fd.kind = "double" /\ value.t \in IntegerTypes \cup FloatTypes)

\* The fields of the descriptor in hand that hold text: string fields and the
\* wrapper messages whose inner field "value" is a string
IsTextField(fd) == fd.kind = "string" \/ (fd.kind = "message" /\ fd.inner = "string")

\* C11: a string field (also the inner string field of a wrapper message) takes only
\* a string and a bool field only a bool: a non-null value of any other type makes
\* encodeRow fail, and a row that encodes holds the text of each string unchanged.
C11_StrictStringBool ==
    Encoded =>
        \A name \in NonNull :
            LET fd == ByName(encIn.desc, name)
                value == encIn.row[name]
            IN /\ (IsTextField(fd) /\ value.t # "string") => encOut.state = "seterr"
               /\ (fd.kind = "bool" /\ value.t # "bool") => encOut.state = "seterr"
               /\ (encOut.state = "ok" /\ IsTextField(fd)) =>
                     (value.t = "string" /\ encOut.msg[name].s = value.s)
               /\ (encOut.state = "ok" /\ fd.kind = "bool") =>
                     (value.t = "bool" /\ encOut.msg[name].n = value.n)

C11_Witness ==
    /\ encOut.state = "seterr"
    /\ encOut.col = "j"
    /\ encIn.row["j"].t = "map"
    /\ "s" \in DOMAIN encIn.row /\ encIn.row["s"].t = "string"


-----------------------------------------------------------------------------
(* The life of the exporters: the factory functions, start and shutdown.   *)
(* Every call an exporter makes to BigQuery or to the schema adapter is    *)
(* appended to its ops.  A call to BigQuery fails when the environment     *)
(* says so (a fault), at most MaxFaults times in a run.                     *)

\* createDefaultConfig: the table of each signal
TableOf(signal) ==
    CASE signal = "traces" -> "trace"
      [] signal = "metrics" -> "metric"
      [] signal = "logs" -> "log"

Tables == {TableOf(s) : s \in Signals}

\* The order of the targets in signalTargets
signalTargets == <<"traces", "metrics", "logs">>

\* The columns the schema of a signal marks Required
RequiredColumns(signal) ==
    CASE signal = "traces" -> {"trace_id", "span_id", "name", "start_time", "end_time"}
      [] signal = "metrics" -> {"metric_name", "metric_type", "datapoint_timestamp"}
      [] signal = "logs" -> {}

\* The proto kind the adapter gives a column type: a timestamp travels as int64
\* (microseconds since the epoch) and JSON as a string
KindOf(type) ==
    CASE type \in {"STRING", "JSON"} -> "string"
      [] type \in {"INTEGER", "TIMESTAMP"} -> "int64"
      [] type = "FLOAT" -> "double"
      [] type = "BOOLEAN" -> "bool"

\* adapt.BQSchemaToStorageTableSchema followed by adapt.StorageSchemaToProto2Descriptor:
\* one field per column, in schema order, required when the column is
StorageSchemaToProto2Descriptor(signal) ==
    [i \in DOMAIN SchemaOf(signal) |->
        Field(SchemaOf(signal)[i][1], KindOf(SchemaOf(signal)[i][2]), "none",
              SchemaOf(signal)[i][1] \in RequiredColumns(signal))]

Op(name, table) == <<name, table>>

Fault(at, signal) == [at |-> at, signal |-> signal]
NoFault == Fault("none", "")

StartFaults ==
    {NoFault, Fault("project", ""), Fault("client", ""), Fault("writeClient", "")}
    \cup {Fault(at, s) : at \in {"create", "stream"}, s \in Signals}

ShutdownFaults ==
    {NoFault, Fault("writeClientClose", ""), Fault("clientClose", "")}
    \cup {Fault(at, s) : at \in {"close", "closeEOF"}, s \in Signals}

\* newBigQueryExporter
newBigQueryExporter == [NoExporter EXCEPT !.state = "created"]

\* Variant: the table is created whether or not its metadata lookup succeeded
initTableAndAppenderAlwaysCreate(acc, signal, fault) ==
    IF acc.err THEN acc
    ELSE LET table == TableOf(signal)
             adapted == acc.e.ops \o <<Op("table.Metadata", table), Op("table.Create", table),
                                       Op("adapt", table), Op("NewManagedStream", table)>>
         IN [acc EXCEPT !.tables = @ \cup {table}, !.e.ops = adapted,
                        !.e.appenders[signal] =
                            [stream |-> "open", desc |-> StorageSchemaToProto2Descriptor(signal)]]

\* One round of the loop of start: *target.appender, err = e.initTableAndAppender(...),
\* on acc = [e, tables, err]; newStorageAppender adapts the schema, then opens the stream
initTableAndAppender(acc, signal, fault) ==
    IF acc.err THEN acc
    ELSE LET table == TableOf(signal)
             missing == table \notin acc.tables
             lookedUp == acc.e.ops \o <<Op("table.Metadata", table)>>
                         \o (IF missing THEN <<Op("table.Create", table)>> ELSE <<>>)
             adapted == lookedUp \o <<Op("adapt", table), Op("NewManagedStream", table)>>
         IN IF missing /\ fault = Fault("create", signal)
            THEN [acc EXCEPT !.err = TRUE, !.e.ops = lookedUp]
            ELSE IF fault = Fault("stream", signal)
            THEN [acc EXCEPT !.err = TRUE, !.tables = @ \cup {table}, !.e.ops = adapted]
            ELSE [acc EXCEPT !.tables = @ \cup {table}, !.e.ops = adapted,
                             !.e.appenders[signal] =
                                 [stream |-> "open",
                                  desc |-> StorageSchemaToProto2Descriptor(signal)]]

\* start on exporter e with the project in state b: [e, tables, err]
start(e, b, fault) ==
    LET failed(x) == [e |-> [x EXCEPT !.state = "failed"], tables |-> b.tables, err |-> TRUE]
        resolved == [e EXCEPT !.project = TRUE]
        withClient == [resolved EXCEPT !.client = "open"]
        withWriter == [withClient EXCEPT !.writeClient = "open",
                                         !.ops = @ \o <<Op("dataset.Metadata", "")>>]
        run(acc, signal) == initTableAndAppender(acc, signal, fault)
        res == FoldSeq(run, [e |-> withWriter, tables |-> b.tables, err |-> FALSE],
                       signalTargets)
    IN CASE fault.at = "project" -> failed(e)
         [] fault.at = "client" -> failed(resolved)
         [] fault.at = "writeClient" -> failed(withClient)
         [] ~b.dataset -> failed(withWriter)
         [] OTHER -> [res EXCEPT !.e.state = IF res.err THEN "failed" ELSE "started"]

\* Variant: io.EOF from Close is an error like any other
closeAppenderEOFFails(acc, signal, fault) ==
    IF acc.err \/ acc.e.appenders[signal].stream = "nil" THEN acc
    ELSE LET closing == [acc EXCEPT !.e.ops = @ \o <<Op("stream.Close", TableOf(signal))>>]
         IN IF fault = Fault("close", signal)
            THEN [closing EXCEPT !.err = TRUE]
            ELSE IF fault = Fault("closeEOF", signal)
            THEN [closing EXCEPT !.err = TRUE, !.e.ops = @ \o <<Op("io.EOF", TableOf(signal))>>]
            ELSE [closing EXCEPT !.e.appenders[signal].stream = "closed"]

\* One round of the loop of shutdown: closeAppender(target.name, *target.appender),
\* on acc = [e, err]; io.EOF from Close is not an error.  A Close that returned io.EOF
\* is followed in ops by the entry io.EOF.
closeAppender(acc, signal, fault) ==
    IF acc.err \/ acc.e.appenders[signal].stream = "nil" THEN acc
    ELSE LET closing == [acc EXCEPT !.e.ops = @ \o <<Op("stream.Close", TableOf(signal))>>]
         IN IF fault = Fault("close", signal)
            THEN [closing EXCEPT !.err = TRUE]
            ELSE IF fault = Fault("closeEOF", signal)
            THEN [closing EXCEPT !.e.appenders[signal].stream = "closed",
                                 !.e.ops = @ \o <<Op("io.EOF", TableOf(signal))>>]
            ELSE [closing EXCEPT !.e.appenders[signal].stream = "closed"]

\* shutdown on exporter e: [e, err]
shutdown(e, fault) ==
    LET run(acc, signal) == closeAppender(acc, signal, fault)
        streams == FoldSeq(run, [e |-> e, err |-> FALSE], signalTargets)
        writer ==
            IF streams.err \/ streams.e.writeClient = "nil" THEN streams
            ELSE LET closing == [streams EXCEPT !.e.ops = @ \o <<Op("writeClient.Close", "")>>]
                 IN IF fault.at = "writeClientClose" THEN [closing EXCEPT !.err = TRUE]
                    ELSE [closing EXCEPT !.e.writeClient = "closed"]
        client ==
            IF writer.err \/ writer.e.client = "nil" THEN writer
            ELSE LET closing == [writer EXCEPT !.e.ops = @ \o <<Op("client.Close", "")>>]
                 IN IF fault.at = "clientClose" THEN [closing EXCEPT !.err = TRUE]
                    ELSE [closing EXCEPT !.e.client = "closed"]
    IN [client EXCEPT !.e.state = IF client.err THEN "closefailed" ELSE "closed"]

\* Whether the run of start or shutdown came to the call the fault is about
LastOp(e) == IF e.ops = <<>> THEN Op("", "") ELSE e.ops[Len(e.ops)]

Met(fault, before, after) ==
    CASE fault = NoFault -> TRUE
      [] fault.at \in {"project", "client", "writeClient"} -> TRUE
      [] fault.at = "create" -> after.err /\ LastOp(after.e) = Op("table.Create", TableOf(fault.signal))
      [] fault.at = "stream" ->
            after.err /\ LastOp(after.e) = Op("NewManagedStream", TableOf(fault.signal))
      [] fault.at = "close" -> after.err /\ LastOp(after.e) = Op("stream.Close", TableOf(fault.signal))
      [] fault.at = "closeEOF" -> before.appenders[fault.signal].stream = "open"
      [] fault.at = "writeClientClose" -> after.err /\ LastOp(after.e) = Op("writeClient.Close", "")
      [] fault.at = "clientClose" -> after.err /\ LastOp(after.e) = Op("client.Close", "")

\* The BigQuery project before any exporter has started
InitLife ==
    /\ mode = "life"
    /\ batch = [signal |-> "none", resources |-> <<>>]
    /\ pc = "life"
    /\ heap = <<>>
    /\ rows = <<>>
    /\ bases = <<>>
    /\ encIn = NoInput
    /\ encOut = NoResult
    /\ exporters = NoExporters
    /\ bq \in [dataset : BOOLEAN, tables : SUBSET Tables]
    /\ faults = 0
    /\ calls = NoCalls
    /\ stream = <<>>
    /\ cfg = createDefaultConfig
    /\ cfgErr = "none"

\* createTracesExporter, createMetricsExporter, createLogsExporter
CreateExporter(signal) ==
    /\ pc = "life"
    /\ exporters[signal].state = "none"
    /\ mode = "pipeline" => \A s \in Signals : exporters[s].state = "none"
    /\ exporters' = [exporters EXCEPT ![signal] = newBigQueryExporter]
    /\ UNCHANGED <<mode, batch, pc, heap, rows, bases, encIn, encOut, bq, faults, calls, stream>>
    /\ UNCHANGED cfgVars

\* The collector starts the exporter of a pipeline once
Start(signal) ==
    /\ pc = "life"
    /\ exporters[signal].state = "created"
    /\ \E fault \in StartFaults :
          LET res == start(exporters[signal], bq, fault)
          IN /\ fault # NoFault => faults < MaxFaults
             /\ Met(fault, exporters[signal], res)
             /\ exporters' = [exporters EXCEPT ![signal] = res.e]
             /\ bq' = [bq EXCEPT !.tables = res.tables]
             /\ faults' = IF fault = NoFault THEN faults ELSE faults + 1
    /\ UNCHANGED <<mode, batch, pc, heap, rows, bases, encIn, encOut, calls, stream>>
    /\ UNCHANGED cfgVars

\* The collector shuts the exporter of a pipeline down once
Shutdown(signal) ==
    /\ pc = "life"
    /\ exporters[signal].state \in {"created", "started", "failed"}
    /\ \E fault \in ShutdownFaults :
          LET res == shutdown(exporters[signal], fault)
          IN /\ fault # NoFault => faults < MaxFaults
             /\ Met(fault, exporters[signal], res)
             /\ exporters' = [exporters EXCEPT ![signal] = res.e]
             /\ faults' = IF fault = NoFault THEN faults ELSE faults + 1
    /\ UNCHANGED <<mode, batch, pc, heap, rows, bases, encIn, encOut, bq, calls, stream>>
    /\ UNCHANGED cfgVars

NextLife ==
    \/ \E signal \in Signals : CreateExporter(signal)
    \/ \E signal \in Signals : Start(signal)
    \/ \E signal \in Signals : Shutdown(signal)

SpecLife == InitLife /\ [][NextLife]_vars

\* The number of times the schema of a table has been adapted, over all exporters
CountOps(ops, op) == Cardinality({i \in DOMAIN ops : ops[i] = op})

Adaptations(table) ==
    LET n(s) == CountOps(exporters[s].ops, Op("adapt", table))
    IN n("traces") + n("metrics") + n("logs")

\* C12: the schema of a destination table is adapted once in the life of the process,
\* also when the traces, metrics and logs exporters of one configuration are all started.
C12_AdaptOncePerTable == \A table \in Tables : Adaptations(table) <= 1


-----------------------------------------------------------------------------
(* Concurrent pushes on started exporters.  The queue workers of the       *)
(* pipelines call pushTraces, pushMetrics and pushLogs at the same time,   *)
(* each on a batch of its own.  A call advances in steps: the projection,  *)
(* one round of the loop of appendStorageRows per row, the AppendRows      *)
(* call.  All calls allocate their row maps in the one heap of the process.*)

PushBatch(signal, items) ==
    [signal |-> signal,
     resources |-> <<[ResourceAt(1) EXCEPT !.scopes = <<[ScopeAt(2) EXCEPT !.items = items]>>]>>]

\* The batches the calls push: of one and of two leaves, and one without any
PushBatches ==
    LET spanA == Span("operationA", 2, 2, NoSpanID, NoAttrs, <<>>, <<>>)
        spanB == Span("operationB", 3, 1, SpanIDA, NaNAttrs, <<Event(NoAttrs), Event(NaNAttrs)>>, <<>>)
        logA == CHOOSE lr \in LogRecords : lr.body.v = Str(<<"This is a log message">>)
        logB == CHOOSE lr \in LogRecords : lr.body.type = "map"
        dpA == CHOOSE dp \in NumberDataPoints : dp.ts = 5
        dpB == CHOOSE dp \in NumberDataPoints : dp.ts = 6
    IN {PushBatch("traces", <<spanA>>), PushBatch("traces", <<spanA, spanB>>),
        [signal |-> "logs", resources |-> <<>>], PushBatch("logs", <<logA, logB>>),
        PushBatch("metrics", <<[Metric("gauge", 0, FALSE) EXCEPT !.dps = <<dpA, dpB>>]>>)}

\* tracesToRows(td), metricsToRows(md), logsToRows(ld)
ToRows(b) ==
    CASE b.signal = "traces" -> tracesToRows(b)
      [] b.signal = "metrics" -> metricsToRows(b)
      [] b.signal = "logs" -> logsToRows(b)

\* The row maps of a projection built in one buffer that every call reuses
AllocateReusing(h, res) ==
    [h |-> res.h \o SubSeq(h, Len(res.h) + 1, Len(h)), rows |-> res.rows]

\* The row maps of a projection that carry the number of maps allocated before them
AllocateCounting(h, res) ==
    [h |-> h \o [i \in DOMAIN res.h |-> [res.h[i] EXCEPT !["flags"] = I64(Len(h))]],
     rows |-> [i \in DOMAIN res.rows |-> res.rows[i] + Len(h)]]

\* The row maps a projection makes are fresh maps of the heap h of the process
Allocate(h, res) ==
    [h |-> h \o res.h, rows |-> [i \in DOMAIN res.rows |-> res.rows[i] + Len(h)]]

\* serialized = append([][]byte{b}, serialized...)
appendSerializedInFront(serialized, b) == <<b>> \o serialized

\* serialized = append(serialized, b)
appendSerialized(serialized, b) == Append(serialized, b)

\* The exporters after a start without failure, the tables in place
StartedExporters ==
    [s \in Signals |-> start(newBigQueryExporter, [dataset |-> TRUE, tables |-> Tables], NoFault).e]

\* The appender a push of the signal uses: e.tracesAppender, e.metricsAppender, e.logsAppender
AppenderOf(signal) == exporters[signal].appenders[signal]

InitPush ==
    /\ mode = "push"
    /\ batch = [signal |-> "none", resources |-> <<>>]
    /\ pc = "push"
    /\ heap = <<>>
    /\ rows = <<>>
    /\ bases = <<>>
    /\ encIn = NoInput
    /\ encOut = NoResult
    /\ exporters = StartedExporters
    /\ bq = [dataset |-> TRUE, tables |-> Tables]
    /\ faults = 0
    /\ calls = NoCalls
    /\ stream = <<>>
    /\ cfg = createDefaultConfig
    /\ cfgErr = "none"

\* pushTraces, pushMetrics, pushLogs up to the call of appendStorageRows
PushProject(c) ==
    /\ pc = "push"
    /\ calls[c].pc = "idle"
    /\ c > 1 => calls[c - 1].pc # "idle"
    /\ \E b \in PushBatches :
          LET res == Allocate(heap, ToRows(b))
          IN /\ heap' = res.h
             /\ calls' = [calls EXCEPT ![c] =
                             [pc |-> IF res.rows = <<>> THEN "done" ELSE "encode",
                              signal |-> b.signal, batch |-> b, rows |-> res.rows,
                              serialized |-> <<>>, err |-> "none", col |-> "",
                              at |-> exporters[b.signal].state]]
    /\ UNCHANGED <<mode, batch, pc, rows, bases, encIn, encOut, exporters, bq, faults, stream>>
    /\ UNCHANGED cfgVars

\* Variant: a row that does not encode ends the loop, and the rows encoded before it
\* are submitted
PushEncodeSubmitsEncoded(c) ==
    /\ pc = "push"
    /\ calls[c].pc = "encode"
    /\ LET i == Len(calls[c].serialized) + 1
       IN \E out \in encodeRow(AppenderOf(calls[c].signal).desc, heap[calls[c].rows[i]]) :
             calls' = [calls EXCEPT ![c] =
                          IF out.state = "ok"
                          THEN [@ EXCEPT !.serialized = appendSerialized(@, out.b),
                                         !.pc = IF i = Len(calls[c].rows) THEN "append"
                                                ELSE "encode"]
                          ELSE [@ EXCEPT !.pc = "append", !.err = out.state, !.col = out.col]]
    /\ UNCHANGED <<mode, batch, pc, heap, rows, bases, encIn, encOut, exporters, bq, faults, stream>>
    /\ UNCHANGED cfgVars

\* One round of the loop of appendStorageRows: the next row of the call is encoded
PushEncode(c) ==
    /\ pc = "push"
    /\ calls[c].pc = "encode"
    /\ LET i == Len(calls[c].serialized) + 1
       IN \E out \in encodeRow(AppenderOf(calls[c].signal).desc, heap[calls[c].rows[i]]) :
             calls' = [calls EXCEPT ![c] =
                          IF out.state = "ok"
                          THEN [@ EXCEPT !.serialized = appendSerialized(@, out.b),
                                         !.pc = IF i = Len(calls[c].rows) THEN "append"
                                                ELSE "encode"]
                          ELSE [@ EXCEPT !.pc = "done", !.err = out.state, !.col = out.col]]
    /\ UNCHANGED <<mode, batch, pc, heap, rows, bases, encIn, encOut, exporters, bq, faults, stream>>
    /\ UNCHANGED cfgVars

\* Variant: a failed submission leaves the call where it was, to submit again
PushAppendRetrying(c) ==
    /\ pc = "push"
    /\ calls[c].pc = "append"
    /\ \E result \in {"none", "AppendRows", "GetResult"} :
          /\ result # "none" => faults < MaxFaults
          /\ faults' = IF result = "none" THEN faults ELSE faults + 1
          /\ stream' = Append(stream, [call |-> c, table |-> TableOf(calls[c].signal),
                                       buffers |-> calls[c].serialized, result |-> result])
          /\ calls' = [calls EXCEPT ![c].pc = IF result = "none" THEN "done" ELSE "append",
                                    ![c].err = result]
    /\ UNCHANGED <<mode, batch, pc, heap, rows, bases, encIn, encOut, exporters, bq>>
    /\ UNCHANGED cfgVars

\* appender.stream.AppendRows(ctx, serialized) and result.GetResult(ctx)
PushAppend(c) ==
    /\ pc = "push"
    /\ calls[c].pc = "append"
    /\ \E result \in {"none", "AppendRows", "GetResult"} :
          /\ result # "none" => faults < MaxFaults
          /\ faults' = IF result = "none" THEN faults ELSE faults + 1
          /\ stream' = Append(stream, [call |-> c, table |-> TableOf(calls[c].signal),
                                       buffers |-> calls[c].serialized, result |-> result])
          /\ calls' = [calls EXCEPT ![c].pc = "done", ![c].err = result]
    /\ UNCHANGED <<mode, batch, pc, heap, rows, bases, encIn, encOut, exporters, bq>>
    /\ UNCHANGED cfgVars

NextPush ==
    \/ \E c \in 1 .. MaxCalls : PushProject(c)
    \/ \E c \in 1 .. MaxCalls : PushEncode(c)
    \/ \E c \in 1 .. MaxCalls : PushAppend(c)

SpecPush == InitPush /\ [][NextPush]_vars

\* The AppendRows calls that call c has made
StreamOf(c) == SelectSeq(stream, LAMBDA e : e.call = c)

\* The row maps of call c as they are now
RowValues(c) == [i \in DOMAIN calls[c].rows |-> heap[calls[c].rows[i]]]

\* The rows the projection of batch b gives when it runs alone
AloneRows(b) == LET res == ToRows(b) IN [i \in DOMAIN res.rows |-> res.h[res.rows[i]]]

\* The buffers the row encodes to with the descriptor of the signal's table (none when
\* it does not encode)
EncodedAlone(signal, r) ==
    {out.b : out \in {o \in encodeRow(StorageSchemaToProto2Descriptor(signal), r) : o.state = "ok"}}

Started(c) == calls[c].pc # "idle"

\* C13: when the n rows of a batch all encode, appendStorageRows makes one AppendRows
\* call on the table of the signal, with n buffers, the i-th the encoding of the i-th
\* row; it makes none before the last row is encoded.
C13_OneAppendInRowOrder ==
    \A c \in 1 .. MaxCalls :
        LET alone == AloneRows(calls[c].batch)
            encoded == [i \in DOMAIN alone |-> EncodedAlone(calls[c].signal, alone[i])]
        IN (Started(c) /\ alone # <<>> /\ \A i \in DOMAIN alone : encoded[i] # {}) =>
              IF calls[c].pc = "done"
              THEN /\ Len(StreamOf(c)) = 1
                   /\ StreamOf(c)[1].table = TableOf(calls[c].signal)
                   /\ Len(StreamOf(c)[1].buffers) = Len(alone)
                   /\ \A i \in DOMAIN alone : StreamOf(c)[1].buffers[i] \in encoded[i]
              ELSE StreamOf(c) = <<>>

C13_Witness ==
    \E c \in 1 .. MaxCalls :
        /\ calls[c].pc = "done"
        /\ Len(calls[c].rows) = 2
        /\ Len(StreamOf(c)) = 1
        /\ Len(StreamOf(c)[1].buffers) = 2
        /\ StreamOf(c)[1].buffers[1] # StreamOf(c)[1].buffers[2]

DecodeField(type, pv) ==
    CASE type \in {"STRING", "JSON"} -> Str(pv.s)
      [] type = "INTEGER" -> I64(pv.n)
      [] type = "TIMESTAMP" -> IF pv.s # <<>> THEN ZeroTime ELSE Time(pv.n * 1000)
      [] type = "FLOAT" -> V("float64", pv.s, pv.n)
      [] type = "BOOLEAN" -> V("bool", <<>>, pv.n)

\* The row decoded from buffer b against the schema of the signal
Decode(signal, b) ==
    LET schema == SchemaOf(signal)
        at(col) == CHOOSE k \in DOMAIN b : schema[b[k][1]][1] = col
    IN [col \in {schema[b[k][1]][1] : k \in DOMAIN b} |->
           DecodeField(schema[b[at(col)][1]][2], b[at(col)][2])]

\* Whether the decoded value is the value of the row: an integer of any width by its
\* number, a JSON column by its text, which has to be JSON
Reproduces(type, original, decoded) ==
    CASE type = "INTEGER" -> original.n = decoded.n /\ decoded.s = <<>>
      [] type = "JSON" -> ValidJSON(original.s) /\ decoded = original
      [] OTHER -> decoded = original

\* The columns of row r that buffer b does not give back
NotReproduced(signal, r, b) ==
    LET schema == SchemaOf(signal)
        decoded == Decode(signal, b)
    IN {schema[k][1] : k \in {i \in DOMAIN schema :
            /\ schema[i][1] \in DOMAIN r
            /\ r[schema[i][1]] # Nil
            /\ ~(/\ schema[i][1] \in DOMAIN decoded
                 /\ Reproduces(schema[i][2], r[schema[i][1]], decoded[schema[i][1]]))}}

\* C16: decoding the buffer of an encoded row against the schema gives back every
\* non-null scalar column of the row exactly, timestamps too, and every JSON column as
\* equal JSON.
C16_RoundTrip ==
    \A c \in 1 .. MaxCalls : \A i \in DOMAIN calls[c].serialized :
        NotReproduced(calls[c].signal, RowValues(c)[i], calls[c].serialized[i]) = {}

\* Whether JSON text t has a member of the given key
HasKey(t, key) ==
    \E k \in 1 .. Len(t) - 3 :
        t[k] = "\"" /\ t[k + 1] = key /\ t[k + 2] = "\"" /\ t[k + 3] = ":"

IsObject(t) == ValidJSON(t) /\ t # <<>> /\ t[1] = "{"

\* The column of the attributes of the leaf record
AttributesColumn(signal) ==
    CASE signal = "traces" -> "span_attributes"
      [] signal = "logs" -> "log_attributes"
      [] signal = "metrics" -> "datapoint_attributes"

\* C20: the instrumentation_scope of every row has the keys name and version, and the
\* key attributes exactly when the scope has an attribute; the resource attributes and
\* the attributes of the leaf record are always an object, {} when there is none.
C20_ScopeAndAttributes ==
    Done =>
        \A i \in DOMAIN rows :
            LET l == LeafSeq(batch)[i]
                scopeText == Row(i)["instrumentation_scope"].s
                resourceText == Row(i)["resource_attributes"].s
                leafText == Row(i)[AttributesColumn(batch.signal)].s
            IN /\ HasKey(scopeText, "name") /\ HasKey(scopeText, "version")
               /\ HasKey(scopeText, "attributes") <=> (l.ss.scope.attrs # NoAttrs)
               /\ IsObject(resourceText)
               /\ l.rs.attrs = NoAttrs => resourceText = <<"{", "}">>
               /\ IsObject(leafText)
               /\ l.leaf.attrs = NoAttrs => leafText = <<"{", "}">>

-----------------------------------------------------------------------------
(* Properties of the log and span columns *)

\* The log record a log row was made from
LogOf(i) == LeafSeq(batch)[i].leaf

\* The JSON tree of a structured body
BodyTree(body) ==
    IF body.type = "map" THEN AsRawMap(body.m)
    ELSE JArr([k \in 1 .. Len(body.e) |-> JVal(body.e[k])])

\* C21: the body column of a log row is the JSON text of the body when the body is a map
\* or a slice, the empty string when the body is empty, and the plain string form of
\* the body for every other type of value.
C21_LogBody ==
    (Done /\ batch.signal = "logs") =>
        \A i \in DOMAIN rows :
            LET body == LogOf(i).body
                text == Row(i)["body"].s
            IN CASE body.type \in {"map", "slice"} ->
                        text # <<>> /\ ValidJSON(text) /\ text = Encode(BodyTree(body))
                 [] body.type = "empty" -> text = <<>>
                 [] OTHER -> text = AsString(body.v)

\* C21 for the bodies json.Marshal can represent
C21_LogBodyMarshalable ==
    (Done /\ batch.signal = "logs") =>
        \A i \in DOMAIN rows :
            LET body == LogOf(i).body
                text == Row(i)["body"].s
            IN CASE body.type \in {"map", "slice"} /\ Marshalable(BodyTree(body)) ->
                        text # <<>> /\ ValidJSON(text) /\ text = Encode(BodyTree(body))
                 [] body.type \in {"map", "slice"} -> text = <<>>
                 [] body.type = "empty" -> text = <<>>
                 [] OTHER -> text = AsString(body.v)

\* Batches of traces and of logs of one resource and one scope grouping, with spans of
\* every kind, status code and set of identifiers
InitFields ==
    /\ mode = "fields"
    /\ batch = [signal |-> "none", resources |-> <<>>]
    /\ pc = "build"
    /\ heap = <<>>
    /\ rows = <<>>
    /\ bases = <<>>
    /\ encIn = NoInput
    /\ encOut = NoResult
    /\ exporters = NoExporters
    /\ bq = NoDataset
    /\ faults = 0
    /\ calls = NoCalls
    /\ stream = <<>>
    /\ cfg = createDefaultConfig
    /\ cfgErr = "none"

NextFields ==
    \/ \E signal \in {"traces", "logs"} : AppendResource(signal)
    \/ AppendScope
    \/ AppendItem
    \/ \E signal \in {"traces", "logs"} : Project(signal)

SpecFields == InitFields /\ [][NextFields]_vars

\* The value of a lowercase hexadecimal digit, 16 for any other character
HexValue(ch) ==
    IF \E d \in 1 .. 16 : HexDigits[d] = ch
    THEN (CHOOSE d \in 1 .. 16 : HexDigits[d] = ch) - 1
    ELSE 16

\* Text is the lowercase hexadecimal rendering of all the bytes of id
IsHexOf(text, id) ==
    /\ Len(text) = 2 * Len(id)
    /\ \A k \in DOMAIN id :
          /\ HexValue(text[2 * k - 1]) < 16
          /\ HexValue(text[2 * k]) < 16
          /\ 16 * HexValue(text[2 * k - 1]) + HexValue(text[2 * k]) = id[k]

\* The identifier columns of a row with the identifiers they render
IDColumns(signal, leaf) ==
    IF signal = "traces"
    THEN {<<"trace_id", leaf.traceID>>, <<"span_id", leaf.spanID>>,
          <<"parent_span_id", leaf.parentSpanID>>}
    ELSE {<<"trace_id", leaf.traceID>>, <<"span_id", leaf.spanID>>}

\* C22 as stated: every trace id is rendered as 32 and every span id as 16 lowercase
\* hexadecimal characters, and only a parent span id that is all zero is rendered as
\* the empty string.
C22_IdentifiersAlwaysHex ==
    (Done /\ batch.signal \in {"traces", "logs"}) =>
        \A i \in DOMAIN rows : \A c \in IDColumns(batch.signal, LogOf(i)) :
            LET text == Row(i)[c[1]].s
            IN IF c[1] = "parent_span_id" /\ IsEmptyID(c[2])
               THEN text = <<>>
               ELSE IsHexOf(text, c[2]) /\ Len(text) = (IF c[1] = "trace_id" THEN 32 ELSE 16)

\* C22: a trace id is rendered as the 32 lowercase hexadecimal characters of its 16
\* bytes, also when it is all zero; a span id and a parent span id are rendered as the
\* 16 lowercase hexadecimal characters of their 8 bytes, and as the empty string when
\* they are all zero.
C22_IdentifiersHexOrEmpty ==
    (Done /\ batch.signal \in {"traces", "logs"}) =>
        \A i \in DOMAIN rows : \A c \in IDColumns(batch.signal, LogOf(i)) :
            LET text == Row(i)[c[1]].s
            IN IF c[1] # "trace_id" /\ IsEmptyID(c[2])
               THEN text = <<>>
               ELSE IsHexOf(text, c[2]) /\ Len(text) = (IF c[1] = "trace_id" THEN 32 ELSE 16)

\* A projected span with a trace id and a span id that are all zero next to a child span
\* whose three identifiers are set
C22_Witness ==
    /\ Done
    /\ batch.signal = "traces"
    /\ \E i, j \in DOMAIN rows :
          /\ IsEmptyID(LogOf(i).spanID) /\ IsEmptyID(LogOf(i).traceID)
          /\ Row(i)["span_id"].s = <<>> /\ Len(Row(i)["trace_id"].s) = 32
          /\ ~IsEmptyID(LogOf(j).parentSpanID)
          /\ Len(Row(j)["parent_span_id"].s) = 16 /\ Len(Row(j)["span_id"].s) = 16

\* The names of the values of ptrace.SpanKind and of ptrace.StatusCode, by value
SpanKindNames == <<"UNSPECIFIED", "INTERNAL", "SERVER", "CLIENT", "PRODUCER", "CONSUMER">>
StatusCodeNames == <<"UNSET", "OK", "ERROR">>

NameOf(names, value) == IF value + 1 \in DOMAIN names THEN names[value + 1] ELSE names[1]

\* C23: in every span row kind is the name of the span's kind and status_code the name
\* of the span's status code, UNSPECIFIED and UNSET for the default and for every
\* unrecognized value, and status_message is the status message of the span.
C23_KindAndStatus ==
    (Done /\ batch.signal = "traces") =>
        \A i \in DOMAIN rows :
            LET span == LogOf(i)
            IN /\ Row(i)["kind"] = Str(<<NameOf(SpanKindNames, span.kind)>>)
               /\ Row(i)["status_code"] = Str(<<NameOf(StatusCodeNames, span.statusCode)>>)
               /\ Row(i)["status_message"] = Str(span.statusMessage)

\* A projected batch with a span of an unrecognized kind and status code, rendered as
\* UNSPECIFIED and UNSET, and a producer span with status ERROR and a status message
C23_Witness ==
    /\ Done
    /\ batch.signal = "traces"
    /\ \E i, j \in DOMAIN rows :
          /\ LogOf(i).kind = 6 /\ LogOf(i).statusCode = 3
          /\ Row(i)["kind"].s = <<"UNSPECIFIED">> /\ Row(i)["status_code"].s = <<"UNSET">>
          /\ LogOf(j).kind = 4 /\ LogOf(j).statusCode = 2
          /\ Row(j)["kind"].s = <<"PRODUCER">> /\ Row(j)["status_code"].s = <<"ERROR">>
          /\ Row(j)["status_message"].s = <<"status-cancelled">>

-----------------------------------------------------------------------------
(* The configuration: the collector unmarshals the keys of the user's      *)
(* configuration into the default configuration and validates the result   *)

\* The strings of at most n characters over an alphabet
RECURSIVE Texts(_, _)
Texts(alphabet, n) ==
    IF n = 0 THEN {<<>>}
    ELSE Texts(alphabet, n - 1)
         \cup {Append(t, ch) : t \in {u \in Texts(alphabet, n - 1) : Len(u) = n - 1}, ch \in alphabet}

\* A valid identifier of n characters
LongText(n) == [i \in 1 .. n |-> IF i % 2 = 1 THEN "Z" ELSE "_"]

ConfigFields == {"project", "id", "trace", "metric", "log"}

\* The values a key of the configuration can have
ConfigTexts(field) ==
    IF field = "project" THEN Texts({"p", " "}, MaxTextLen)
    ELSE Texts({"a", "1", "-"}, MaxTextLen)
         \cup {LongText(maxIdentifierLength), LongText(maxIdentifierLength + 1)}

\* The fields that no longer hold their default
Overridden(c) == {field \in ConfigFields : c[field] # createDefaultConfig[field]}

InitConfig ==
    /\ mode = "config"
    /\ batch = [signal |-> "none", resources |-> <<>>]
    /\ pc = "config"
    /\ heap = <<>>
    /\ rows = <<>>
    /\ bases = <<>>
    /\ encIn = NoInput
    /\ encOut = NoResult
    /\ exporters = NoExporters
    /\ bq = NoDataset
    /\ faults = 0
    /\ calls = NoCalls
    /\ stream = <<>>
    /\ cfg = createDefaultConfig
    /\ cfgErr = "none"

\* Unmarshal of one key of the user's configuration
SetKey(field) ==
    /\ pc = "config"
    /\ field \notin Overridden(cfg)
    /\ Cardinality(Overridden(cfg)) < MaxConfigKeys
    /\ \E value \in ConfigTexts(field) : cfg' = [cfg EXCEPT ![field] = value]
    /\ UNCHANGED <<mode, batch, pc, heap, rows, bases, encIn, encOut>>
    /\ UNCHANGED <<exporters, bq, faults, calls, stream, cfgErr>>

\* cfg.Validate()
ValidateConfig ==
    /\ pc = "config"
    /\ cfgErr' = Validate(cfg)
    /\ pc' = "validated"
    /\ UNCHANGED <<mode, batch, heap, rows, bases, encIn, encOut>>
    /\ UNCHANGED <<exporters, bq, faults, calls, stream, cfg>>

NextConfig ==
    \/ \E field \in ConfigFields : SetKey(field)
    \/ ValidateConfig

SpecConfig == InitConfig /\ [][NextConfig]_vars

\* Whether a value is an identifier: a letter or an underscore, then letters, digits
\* and underscores, at most 1024 characters in all
IsIdentifier(value) ==
    /\ value # <<>>
    /\ Len(value) <= 1024
    /\ value[1] \in UpperCase \cup LowerCase \cup {"_"}
    /\ \A k \in DOMAIN value : value[k] \in UpperCase \cup LowerCase \cup Digits \cup {"_"}

\* C24: Validate returns an error exactly when dataset.id is empty, or dataset.project
\* is not empty and begins or ends with whitespace, or one of dataset.id, trace_table,
\* metric_table and log_table is empty, longer than 1024 characters or not of the
\* form ^[A-Za-z_][A-Za-z0-9_]*$; an empty dataset.project is valid.
C24_ValidateExactly ==
    pc = "validated" =>
        (cfgErr # "nil") <=>
            \/ cfg.id = <<>>
            \/ /\ cfg.project # <<>>
               /\ cfg.project[1] \in WhiteSpace \/ cfg.project[Len(cfg.project)] \in WhiteSpace
            \/ \E field \in {"id", "trace", "metric", "log"} : ~IsIdentifier(cfg[field])

\* A configuration without a project and with a dataset id of 1024 characters that was
\* accepted
C24_Witness ==
    /\ pc = "validated"
    /\ cfgErr = "nil"
    /\ cfg.project = <<>>
    /\ Len(cfg.id) = 1024

\* A configuration whose only flaw is a table name of 1025 valid characters, and one
\* whose only flaw is a project that ends with a space: both rejected
C24_WitnessRejected ==
    /\ pc = "validated"
    /\ cfgErr # "nil"
    /\ IsIdentifier(cfg.id)
    /\ \/ Len(cfg.trace) = 1025
       \/ cfg.project = <<"p", " ">>

-----------------------------------------------------------------------------
(* Properties of start and shutdown *)

\* The positions in the ops of an exporter of the calls with the given name
Positions(ops, name) == {i \in DOMAIN ops : ops[i][1] = name}

\* The position of a call in the ops of an exporter, 0 when it was never made
PositionOf(ops, op) ==
    IF \E i \in DOMAIN ops : ops[i] = op THEN CHOOSE i \in DOMAIN ops : ops[i] = op ELSE 0

\* The calls start made about the table of a target
OpsOnTable(ops, signal) == {i \in DOMAIN ops : ops[i][2] = TableOf(signal)}

\* What holds of exporter e after a run of start on the project in state b
StartedProperly(e, b) ==
    /\ e.state = "started" =>
          /\ b.dataset
          /\ PositionOf(e.ops, Op("dataset.Metadata", "")) > 0
          /\ \A s \in Signals : e.appenders[s].stream = "open"
          /\ \A i, j \in DOMAIN signalTargets :
                i < j =>
                    /\ PositionOf(e.ops, Op("dataset.Metadata", ""))
                           < PositionOf(e.ops, Op("NewManagedStream", TableOf(signalTargets[i])))
                    /\ PositionOf(e.ops, Op("NewManagedStream", TableOf(signalTargets[i])))
                           < PositionOf(e.ops, Op("NewManagedStream", TableOf(signalTargets[j])))
    /\ (e.client = "open" /\ e.writeClient = "open" /\ ~b.dataset) =>
          /\ e.state = "failed"
          /\ LastOp(e) = Op("dataset.Metadata", "")
          /\ Positions(e.ops, "table.Create") = {}
          /\ Positions(e.ops, "NewManagedStream") = {}
          /\ \A s \in Signals : e.appenders[s].stream = "nil"
    /\ \A s \in Signals :
          PositionOf(e.ops, Op("table.Create", TableOf(s))) > 0 =>
              /\ TableOf(s) \notin b.tables
              /\ PositionOf(e.ops, Op("table.Create", TableOf(s)))
                     = PositionOf(e.ops, Op("table.Metadata", TableOf(s))) + 1
    /\ \A i, j \in DOMAIN signalTargets :
          (i < j /\ e.appenders[signalTargets[i]].stream = "nil") =>
              /\ e.state = "failed"
              /\ OpsOnTable(e.ops, signalTargets[j]) = {}
              /\ e.appenders[signalTargets[j]].stream = "nil"

\* C25: start returns nil only if the dataset lookup succeeded and an appender was
\* created for traces, metrics and logs, in that order; when the dataset is missing
\* start fails at the dataset lookup, before any table is created or any appender
\* opened; a table is created only when its metadata lookup failed; the first target
\* that fails ends start with an error, and the later targets are not initialized.
C25_Start ==
    [][\A s \in Signals :
          (exporters[s].state = "created" /\ exporters'[s].state \in {"started", "failed"}) =>
              /\ StartedProperly(exporters'[s], bq)
              /\ \A t \in Tables :
                    t \in bq'.tables \ bq.tables =>
                        PositionOf(exporters'[s].ops, Op("table.Create", t)) > 0]_vars

\* An exporter whose start failed at the stream of the metrics table, after it created
\* the trace table and opened the traces appender, next to an exporter that started
\* on a project without any table, and one that failed on a missing dataset
C25_Witness ==
    \E s, t \in Signals :
        /\ exporters[s].state = "failed"
        /\ exporters[s].appenders["traces"].stream = "open"
        /\ LastOp(exporters[s]) = Op("NewManagedStream", "metric")
        /\ exporters[s].appenders["metrics"].stream = "nil"
        /\ exporters[t].state = "started"
        /\ Positions(exporters[t].ops, "table.Create") # {}

\* An exporter whose start failed because the dataset is missing
C25_WitnessNoDataset ==
    \E s \in Signals :
        /\ exporters[s].state = "failed"
        /\ ~bq.dataset
        /\ LastOp(exporters[s]) = Op("dataset.Metadata", "")

-----------------------------------------------------------------------------
(* appendStorageRows on rows of any content, with the descriptors of the   *)
(* encoder above: rows that encode, rows with a column that cannot be      *)
(* coerced, rows that lack a required column                               *)

AppendSampleRows ==
    {("s" :> Str(<<"v">>)) @@ ("i" :> I64(3)),
     ("s" :> Str(<<"w">>)) @@ ("b" :> Bool(TRUE)),
     ("s" :> Str(<<"v">>)) @@ ("i" :> Str(<<"v">>)),
     ("b" :> I64(3)) @@ ("d" :> Str(<<"v">>)),
     ("s" :> Nil) @@ ("i" :> I64(3))}

\* The batches of rows handed to appendStorageRows
RECURSIVE AppendBatches(_)
AppendBatches(n) ==
    IF n = 0 THEN {<<>>}
    ELSE AppendBatches(n - 1)
         \cup {Append(b, r) : b \in {x \in AppendBatches(n - 1) : Len(x) = n - 1},
                              r \in AppendSampleRows}

\* One call of appendStorageRows(ctx, appender, rows) about to enter its loop; the
\* appender is that of the traces table, with one of the descriptors of the encoder
InitAppend ==
    /\ mode = "append"
    /\ batch = [signal |-> "none", resources |-> <<>>]
    /\ pc = "push"
    /\ \E b \in AppendBatches(MaxLeaves) \ {<<>>} :
          /\ heap = b
          /\ calls = [c \in 1 .. MaxCalls |->
                         IF c = 1
                         THEN [IdleCall EXCEPT !.pc = "encode", !.signal = "traces",
                                               !.rows = [i \in DOMAIN b |-> i],
                                               !.at = "started"]
                         ELSE IdleCall]
    /\ rows = <<>>
    /\ bases = <<>>
    /\ encIn = NoInput
    /\ encOut = NoResult
    /\ \E desc \in EncDescriptors :
          exporters = [StartedExporters EXCEPT !["traces"].appenders["traces"].desc = desc]
    /\ bq = [dataset |-> TRUE, tables |-> Tables]
    /\ faults = 0
    /\ stream = <<>>
    /\ cfg = createDefaultConfig
    /\ cfgErr = "none"

NextAppend ==
    \/ PushEncode(1)
    \/ PushAppend(1)

SpecAppend == InitAppend /\ [][NextAppend]_vars

\* The rows of call c that do not encode with the descriptor of the appender of the call
FailingRows(c) ==
    {i \in DOMAIN calls[c].rows :
        \A out \in encodeRow(AppenderOf(calls[c].signal).desc, heap[calls[c].rows[i]]) :
            out.state # "ok"}

\* Whether the column is one that keeps the row from encoding: a value that is not
\* null and cannot be coerced to the kind of the field, or a required field without value
Offending(desc, row, col) ==
    /\ col \in FieldNames(desc)
    /\ IF col \in DOMAIN row /\ row[col] # Nil
       THEN ~setFieldValue(ByName(desc, col), row[col]).ok
       ELSE ByName(desc, col).required

\* C26: when a row of the batch does not encode, appendStorageRows makes no AppendRows
\* call, at any time, so that no row of the batch is submitted, and returns the
\* error of encodeRow, which names a column of the first failing row that keeps it
\* from encoding.
C26_NoPartialSubmit ==
    \A c \in 1 .. MaxCalls :
        (Started(c) /\ FailingRows(c) # {}) =>
            /\ StreamOf(c) = <<>>
            /\ calls[c].pc # "append"
            /\ calls[c].pc = "done" =>
                  LET i == CHOOSE k \in FailingRows(c) : \A l \in FailingRows(c) : k <= l
                  IN /\ calls[c].err \in {"seterr", "marshalerr"}
                     /\ Len(calls[c].serialized) = i - 1
                     /\ Offending(AppenderOf(calls[c].signal).desc, heap[calls[c].rows[i]],
                                  calls[c].col)

\* A call that ended with an error at its second row, after it had encoded the first,
\* and that submitted nothing
C26_Witness ==
    \E c \in 1 .. MaxCalls :
        /\ calls[c].pc = "done"
        /\ calls[c].err = "seterr"
        /\ calls[c].col = "i"
        /\ Len(calls[c].rows) = 2
        /\ Len(calls[c].serialized) = 1
        /\ StreamOf(c) = <<>>

\* A call that ended with the error of proto.Marshal about the required column s
C26_WitnessRequired ==
    \E c \in 1 .. MaxCalls :
        /\ calls[c].pc = "done"
        /\ calls[c].err = "marshalerr"
        /\ calls[c].col = "s"
        /\ StreamOf(c) = <<>>

-----------------------------------------------------------------------------
(* Projected rows and the encoder *)

\* The Go types the coercion of a wire kind accepts
AcceptedTypes(kind) ==
    CASE kind = "string" -> {"string"}
      [] kind = "bool" -> {"bool"}
      [] kind = "int64" -> {"int", "int64", "uint64", "uint32", "float64", "time"}
      [] kind = "double" -> {"float64", "float32", "int", "int64"}

\* C27: every value of a projected row that is not null is of a type the coercion
\* accepts for the wire kind of its column (string for STRING and JSON, bool for
\* BOOLEAN, int64 for INTEGER and TIMESTAMP, double for FLOAT), so that encodeRow
\* returns no coercion error for the row: setFieldValue, the only source of such an
\* error, succeeds on every column.
C27_ProjectedRowsCoerce ==
    Done =>
        LET desc == StorageSchemaToProto2Descriptor(batch.signal)
        IN \A i \in DOMAIN rows : \A col \in DOMAIN Row(i) :
              Row(i)[col] # Nil =>
                  /\ col \in FieldNames(desc)
                  /\ Row(i)[col].t \in AcceptedTypes(ByName(desc, col).kind)
                  /\ setFieldValue(ByName(desc, col), Row(i)[col]).ok

\* A projected histogram row: a uint64 count in an INTEGER column, float64 statistics,
\* timestamps, strings and a null value_int
C27_Witness ==
    /\ Done
    /\ batch.signal = "metrics"
    /\ \E i \in DOMAIN rows :
          /\ Row(i)["metric_type"].s = <<"HISTOGRAM">>
          /\ Row(i)["count"].t = "uint64"
          /\ Row(i)["sum"].t = "float64"
          /\ Row(i)["datapoint_timestamp"].t = "time"
          /\ Row(i)["value_int"] = Nil
          /\ \E out \in encodeRow(StorageSchemaToProto2Descriptor("metrics"), Row(i)) :
                out.state = "ok"

-----------------------------------------------------------------------------
(* The outcome of a push *)

Returned(c) == calls[c].pc = "done"

\* C28 as stated: a push submits at most once, never again after a failure, and returns
\* nil only after its one AppendRows call succeeded and GetResult gave no error.
C28_NilOnlyAfterSubmit ==
    \A c \in 1 .. MaxCalls :
        /\ Len(StreamOf(c)) <= 1
        /\ (Returned(c) /\ calls[c].err = "none") =>
              (Len(StreamOf(c)) = 1 /\ StreamOf(c)[1].result = "none")
        /\ (Returned(c) /\ StreamOf(c) # <<>> /\ StreamOf(c)[1].result # "none") =>
              calls[c].err # "none"

\* C28: a push submits at most once, never again after a failure; it returns nil
\* only when its batch projected to no row, without any AppendRows call, or after
\* its one AppendRows call succeeded and GetResult gave no error; it returns an
\* error when AppendRows or GetResult failed.
C28_SubmitsOnce ==
    \A c \in 1 .. MaxCalls :
        /\ Len(StreamOf(c)) <= 1
        /\ (Returned(c) /\ calls[c].err = "none") =>
              \/ calls[c].rows = <<>> /\ StreamOf(c) = <<>>
              \/ Len(StreamOf(c)) = 1 /\ StreamOf(c)[1].result = "none"
        /\ (Returned(c) /\ StreamOf(c) # <<>> /\ StreamOf(c)[1].result # "none") =>
              calls[c].err = StreamOf(c)[1].result
        /\ (~Returned(c)) => StreamOf(c) = <<>>

\* A push that returned the error of GetResult after its one submission, and a later
\* push of rows that returned nil
C28_Witness ==
    \E c, d \in 1 .. MaxCalls :
        /\ Returned(c) /\ calls[c].err = "GetResult"
        /\ Len(StreamOf(c)) = 1
        /\ Returned(d) /\ calls[d].err = "none"
        /\ Len(StreamOf(d)) = 1 /\ StreamOf(d)[1].result = "none"

-----------------------------------------------------------------------------
(* A collector with one pipeline: the exporter of the pipeline is created, *)
(* started and shut down, and pushTraces, pushMetrics or pushLogs is       *)
(* called on it in any of its states.  A call is one step here.            *)

\* The batches pushed: one without resource groupings, one whose groupings hold no
\* span, no log record or a gauge without data points, and one that gives one row
PipelineBatches(signal) ==
    LET leaf == CASE signal = "traces" -> Span("operationA", 2, 2, NoSpanID, NoAttrs, <<>>, <<>>)
                  [] signal = "logs" ->
                        CHOOSE lr \in LogRecords : lr.body.v = Str(<<"This is a log message">>)
                  [] signal = "metrics" ->
                        [Metric("gauge", 0, FALSE) EXCEPT
                            !.dps = <<CHOOSE dp \in NumberDataPoints : dp.ts = 5>>]
    IN {[signal |-> signal, resources |-> <<>>],
        PushBatch(signal, IF signal = "metrics" THEN <<Metric("gauge", 0, FALSE)>> ELSE <<>>),
        PushBatch(signal, <<leaf>>)}

\* The loop of appendStorageRows over rows that all encode: one buffer per row
EncodeAll(outs) ==
    [i \in DOMAIN outs |-> (CHOOSE out \in outs[i] : out.state = "ok").b]

\* The rows of a projection, read from the heap in slice order
ProjectedRows(res) ==
    [i \in DOMAIN res.rows |-> res.h[res.rows[i]]]

\* appendStorageRows on the appender of the signal, outs being the outcomes of
\* encodeRow per row: [err, submitted], submitted being the AppendRows calls made.
\* A nil appender is dereferenced (a panic) and a closed stream refuses the rows.
appendStorageRows(appender, signal, outs, result) ==
    IF appender.stream = "nil"
    THEN [err |-> "panic", submitted |-> <<>>]
    ELSE IF \E i \in DOMAIN outs : \A out \in outs[i] : out.state # "ok"
    THEN [err |-> "encode", submitted |-> <<>>]
    ELSE [err |-> IF appender.stream = "closed" THEN "AppendRows" ELSE result,
          submitted |-> <<[call |-> 0, table |-> TableOf(signal),
                           buffers |-> EncodeAll(outs),
                           result |-> IF appender.stream = "closed"
                                      THEN "AppendRows" ELSE result]>>]

\* The rows of a push go to the appender of its signal
appendRows(e, signal, rs, result) ==
    appendStorageRows(e.appenders[signal], signal,
                      [i \in DOMAIN rs |-> encodeRow(e.appenders[signal].desc, rs[i])],
                      result)

\* The return on an empty projection, before the appender is read
pushRows(e, signal, rs, result) ==
    IF Len(rs) = 0
    THEN [err |-> "none", submitted |-> <<>>]
    ELSE appendRows(e, signal, rs, result)

\* pushTraces, pushMetrics, pushLogs without the return on an empty projection
pushAlwaysAppending(e, signal, b, result) ==
    appendRows(e, signal, ProjectedRows(ToRows(b)), result)

\* pushTraces, pushMetrics, pushLogs on exporter e with batch b, the environment
\* deciding the result of the submission
push(e, signal, b, result) ==
    pushRows(e, signal, ProjectedRows(ToRows(b)), result)

InitPipeline ==
    /\ mode = "pipeline"
    /\ batch = [signal |-> "none", resources |-> <<>>]
    /\ pc = "life"
    /\ heap = <<>>
    /\ rows = <<>>
    /\ bases = <<>>
    /\ encIn = NoInput
    /\ encOut = NoResult
    /\ exporters = NoExporters
    /\ bq \in [dataset : BOOLEAN, tables : {{}, Tables}]
    /\ faults = 0
    /\ calls = NoCalls
    /\ stream = <<>>
    /\ cfg = createDefaultConfig
    /\ cfgErr = "none"

\* One call of pushTraces, pushMetrics or pushLogs, the c-th of the run
Push(signal) ==
    /\ pc = "life"
    /\ exporters[signal].state # "none"
    /\ \E c \in 1 .. MaxCalls :
          /\ calls[c].pc = "idle"
          /\ c > 1 => calls[c - 1].pc # "idle"
          /\ \E b \in PipelineBatches(signal) :
                \E result \in {"none", "AppendRows", "GetResult"} :
                   \E res \in {push(exporters[signal], signal, b, result)} :
                      /\ (res.submitted = <<>> \/ exporters[signal].appenders[signal].stream = "closed")
                            => result = "none"
                      /\ (res.submitted # <<>> /\ res.err = result /\ result # "none")
                            => faults < MaxFaults
                      /\ faults' = IF res.submitted # <<>> /\ res.err = result /\ result # "none"
                                   THEN faults + 1 ELSE faults
                      /\ stream' = stream \o [i \in DOMAIN res.submitted |->
                                                 [res.submitted[i] EXCEPT !.call = c]]
                      /\ calls' = [calls EXCEPT ![c] =
                                      [IdleCall EXCEPT !.pc = "done", !.signal = signal,
                                                       !.batch = b, !.err = res.err,
                                                       !.at = exporters[signal].state]]
    /\ UNCHANGED <<mode, batch, pc, heap, rows, bases, encIn, encOut, exporters, bq>>
    /\ UNCHANGED cfgVars

NextPipeline ==
    \/ \E signal \in Signals : CreateExporter(signal)
    \/ \E signal \in Signals : Start(signal)
    \/ \E signal \in Signals : Shutdown(signal)
    \/ \E signal \in Signals : Push(signal)

SpecPipeline == InitPipeline /\ [][NextPipeline]_vars

\* C29: a push whose batch projects to no row returns nil, makes no AppendRows call
\* and leaves the exporter and its appenders as they are, in every state of the
\* exporter: created and not started, started, failed to start, shut down.
C29_EmptyPush ==
    [][\A c \in 1 .. MaxCalls :
          (calls[c].pc = "idle" /\ calls'[c].pc = "done"
             /\ ToRows(calls'[c].batch).rows = <<>>) =>
              /\ calls'[c].err = "none"
              /\ stream' = stream
              /\ exporters' = exporters]_vars

\* A push of an empty batch that returned nil before start and one that returned nil
\* after shutdown, on the same exporter, without any AppendRows call
C29_Witness ==
    \E c, d \in 1 .. MaxCalls :
        /\ calls[c].pc = "done" /\ calls[d].pc = "done"
        /\ calls[c].signal = calls[d].signal
        /\ ToRows(calls[c].batch).rows = <<>> /\ ToRows(calls[d].batch).rows = <<>>
        /\ calls[c].at = "created" /\ calls[d].at = "closed"
        /\ calls[c].err = "none" /\ calls[d].err = "none"
        /\ exporters[calls[c].signal].appenders[calls[c].signal].stream = "closed"
        /\ stream = <<>>

-----------------------------------------------------------------------------
(* Properties of shutdown *)

\* The calls shutdown has to make on an exporter, in order: Close on the stream of
\* every appender that is there, on the write client and on the client if they are
ExpectedCloses(e) ==
    LET open == SelectSeq(signalTargets, LAMBDA s : e.appenders[s].stream = "open")
    IN [i \in DOMAIN open |-> Op("stream.Close", TableOf(open[i]))]
       \o (IF e.writeClient = "open" THEN <<Op("writeClient.Close", "")>> ELSE <<>>)
       \o (IF e.client = "open" THEN <<Op("client.Close", "")>> ELSE <<>>)

\* The entries that a step added to the ops of an exporter
NewOps(before, after) == SubSeq(after.ops, Len(before.ops) + 1, Len(after.ops))

\* What holds of a run of shutdown that took the exporter from before to after
ShutDownProperly(before, after) ==
    LET new == NewOps(before, after)
        made == SelectSeq(new, LAMBDA op : op[1] # "io.EOF")
    IN /\ after.state = "closed" =>
             /\ made = ExpectedCloses(before)
             /\ \A s \in Signals :
                   after.appenders[s].stream =
                       (IF before.appenders[s].stream = "open" THEN "closed"
                        ELSE before.appenders[s].stream)
             /\ after.writeClient = (IF before.writeClient = "open" THEN "closed" ELSE "nil")
             /\ after.client = (IF before.client = "open" THEN "closed" ELSE "nil")
       /\ \A i \in DOMAIN new :
             new[i][1] = "io.EOF" =>
                 /\ i > 1 /\ new[i - 1] = Op("stream.Close", new[i][2])
                 /\ i < Len(new)
                 /\ \E s \in Signals : TableOf(s) = new[i][2] /\ after.appenders[s].stream = "closed"

\* C30: when shutdown returns nil, after a start that succeeded or failed at any step
\* or without any start, it has closed the stream of every appender start had
\* opened, in the order traces, metrics, logs, then the write client, then the
\* BigQuery client, and has made no call on an appender or a client that was never
\* created; an io.EOF from the Close of a stream does not end shutdown.
C30_Shutdown ==
    [][\A s \in Signals :
          (exporters[s].state \in {"created", "started", "failed"}
             /\ exporters'[s].state \in {"closed", "closefailed"}) =>
              ShutDownProperly(exporters[s], exporters'[s])]_vars

\* An exporter that was shut down after a start that had opened its three streams, the
\* Close of the metrics stream having returned io.EOF
C30_Witness ==
    \E s \in Signals :
        /\ exporters[s].state = "closed"
        /\ \A t \in Signals : exporters[s].appenders[t].stream = "closed"
        /\ exporters[s].writeClient = "closed" /\ exporters[s].client = "closed"
        /\ \E i \in DOMAIN exporters[s].ops : exporters[s].ops[i] = Op("io.EOF", "metric")
        /\ LastOp(exporters[s]) = Op("client.Close", "")

\* An exporter that was shut down after its start had failed at the stream of the
\* metrics table: the traces stream and the two clients are closed, nothing else
C30_WitnessFailedStart ==
    \E s \in Signals :
        /\ exporters[s].state = "closed"
        /\ exporters[s].appenders["traces"].stream = "closed"
        /\ exporters[s].appenders["metrics"].stream = "nil"
        /\ exporters[s].appenders["logs"].stream = "nil"
        /\ exporters[s].writeClient = "closed" /\ exporters[s].client = "closed"

=============================================================================
